---- MODULE Spec2Model ----
(***************************************************************************)
(* A model of the openhue design-token generator: the configuration        *)
(* merger, the theme generator, the tier renderers, the Open Props         *)
(* adapter and the generateTokens orchestrator with its file system.       *)
(* CSS text is modelled as TLA+ strings, so that the text transforms act   *)
(* on the characters the code's regular expressions act on.                *)
(***************************************************************************)
EXTENDS Integers, Sequences, FiniteSets, TLC

VARIABLES
    \* ---- generateTokens runs and the output directory ----
    fs,         \* the file system: path -> text, for the files that exist
    dirs,       \* the directories that exist
    pc,         \* per run slot: the position inside generateTokens
    opt,        \* per run slot: the options the run was called with
    cfg,        \* per run slot: the resolved configuration (mergeConfig)
    theme,      \* per run slot: the generated theme
    widx,       \* per run slot: the number of Open Props files written
    appExists,  \* per run slot: the result of fileExists(appPath)
    req,        \* per run slot: the state of each third-party fetch
    netlog,     \* per run slot: the requests started and errors raised, in order
    err,        \* per run slot: the error a failed run was rejected with
    out,        \* per run slot: path -> text of every file the run has written
    now,        \* the wall clock, in ticks
    \* ---- the configuration merger on its own ----
    userConfig, \* a partial user override
    callOpt,    \* the output/format options of a generateTokens call
    resolved,   \* the resolved configuration
    cfgPc,      \* "input", "merged" (mergeConfig) or "called" (generateTokens)
    \* ---- the Open Props adapter on its own ----
    css,        \* the text being adapted, as it stands
    cssName,    \* the logical file name of the text
    cssArg,     \* the primitives prefix and the seed hue of the adaptation
    cssRaw,     \* the text as fetched
    cssMid,     \* the text as transformOpenPropsCSS left it
    cssPc,      \* "raw", "transformed", "prefixed" or "emitted"
    \* ---- the theme generator and the theme document on their own ----
    thSeed,     \* the seed generateTheme is called with
    thVariant,  \* the scheme variant it is called with
    thTheme,    \* the theme it returned
    thJson,     \* the theme document (formatThemeJson)
    thParsed,   \* what parseThemeJson returned or threw
    thDropped,  \* the top-level keys the document has lost
    thPc,       \* "input", "generated", "formatted", "edited" or "parsed"
    \* ---- the renderers on their own ----
    job,        \* the call: which renderer, with which arguments
    rendered,   \* what the call returned
    jobPc,      \* "input" or "done"
    \* ---- one fetchAllOpenProps call with its timers ----
    fetches,    \* per file: the state of fetchOpenProps
    timers,     \* per file: the state of the 30 s abort timer
    elapsed,    \* the time since the fetches were started
    allResult,  \* the state of the promise fetchAllOpenProps returned
    \* ---- the configurator component <color-scheme-viewer> ----
    view,           \* the fields of the component
    debounceTimer,  \* the timer of _debouncedRegenerate: "none" or "pending"
    changed,        \* TRUE while an update that reports "seed" as changed is pending
    viewPc          \* "parked", "constructed" or "connected"

pipeVars == <<fs, dirs, pc, opt, cfg, theme, widx, appExists, req, netlog, err, out, now>>
cfgVars  == <<userConfig, callOpt, resolved, cfgPc>>
textVars == <<css, cssName, cssArg, cssRaw, cssMid, cssPc>>
themeVars == <<thSeed, thVariant, thTheme, thJson, thParsed, thDropped, thPc>>
renderVars == <<job, rendered, jobPc>>
fetchVars == <<fetches, timers, elapsed, allResult>>
sideVars == <<themeVars, renderVars, fetchVars>>
viewVars == <<view, debounceTimer, changed, viewPc>>
vars     == <<fs, dirs, pc, opt, cfg, theme, widx, appExists, req, netlog, err, out, now,
              userConfig, callOpt, resolved, cfgPc,
              css, cssName, cssArg, cssRaw, cssMid, cssPc,
              thSeed, thVariant, thTheme, thJson, thParsed, thDropped, thPc,
              job, rendered, jobPc,
              fetches, timers, elapsed, allResult,
              view, debounceTimer, changed, viewPc>>

-----------------------------------------------------------------------------
(* Strings and JavaScript objects                                          *)

\* s[i] as a one-character string
Ch(s, i) == SubSeq(s, i, i)

\* s.slice(i - 1): the text from position i on
From(s, i) == IF i > Len(s) THEN "" ELSE SubSeq(s, i, Len(s))

\* s.startsWith(lit, i - 1)
StartsAt(s, i, lit) ==
    /\ i >= 1
    /\ i + Len(lit) - 1 <= Len(s)
    /\ SubSeq(s, i, i + Len(lit) - 1) = lit

\* lines.join(sep), the lines lo..hi halved at each step
RECURSIVE JoinRange(_, _, _, _)
JoinRange(lines, sep, lo, hi) ==
    IF lo > hi THEN ""
    ELSE IF lo = hi THEN lines[lo]
    ELSE JoinRange(lines, sep, lo, (lo + hi) \div 2) \o sep
         \o JoinRange(lines, sep, (lo + hi) \div 2 + 1, hi)

Join(lines, sep) == JoinRange(lines, sep, 1, Len(lines))

\* the concatenation of the sequences lo..hi of seqs
RECURSIVE FlattenRange(_, _, _)
FlattenRange(seqs, lo, hi) ==
    IF lo > hi THEN <<>>
    ELSE IF lo = hi THEN seqs[lo]
    ELSE FlattenRange(seqs, lo, (lo + hi) \div 2) \o FlattenRange(seqs, (lo + hi) \div 2 + 1, hi)

Flatten(seqs) == FlattenRange(seqs, 1, Len(seqs))

\* F(v), with v evaluated once, before F is applied
Then(v, F(_)) == CHOOSE r \in {F(x) : x \in {v}} : TRUE

\* the object with no own property
NoProps == [k \in {} |-> ""]

\* { ...a, ...b }: b's properties over a's
Spread(a, b) ==
    [k \in (DOMAIN a) \cup (DOMAIN b) |-> IF k \in DOMAIN b THEN b[k] ELSE a[k]]

\* obj.key of an optional property: `dflt` stands for undefined
Prop(obj, key, dflt) == IF key \in DOMAIN obj THEN obj[key] ELSE dflt

\* every object holding some of the keys, each with a value of vals
PartialObjects(keys, vals) == UNION {[K -> vals] : K \in SUBSET keys}

-----------------------------------------------------------------------------
(* tokens/config.ts                                                        *)

\* A Record<string, string> of the semantic section is a sequence of
\* <<short-name, value>> pairs, in the object's key order.
DEFAULT_SEMANTIC ==
    [ space    |-> << <<"xs", "size-2">>, <<"sm", "size-3">>, <<"md", "size-4">>,
                      <<"lg", "size-5">>, <<"xl", "size-6">>, <<"2xl", "size-7">> >>,
      radius   |-> << <<"none", "0">>, <<"sm", "radius-2">>, <<"md", "radius-3">>,
                      <<"lg", "radius-4">>, <<"full", "radius-round">> >>,
      shadow   |-> << <<"sm", "shadow-2">>, <<"md", "shadow-3">>, <<"lg", "shadow-4">>,
                      <<"xl", "shadow-5">> >>,
      weight   |-> << <<"light", "font-weight-3">>, <<"normal", "font-weight-4">>,
                      <<"medium", "font-weight-5">>, <<"semibold", "font-weight-6">>,
                      <<"bold", "font-weight-7">> >>,
      leading  |-> << <<"none", "1">>, <<"tight", "font-lineheight-1">>,
                      <<"snug", "font-lineheight-2">>, <<"normal", "font-lineheight-3">>,
                      <<"relaxed", "font-lineheight-4">>, <<"loose", "font-lineheight-5">> >>,
      duration |-> << <<"instant", "0ms">>, <<"fast", "150ms">>, <<"normal", "300ms">>,
                      <<"slow", "500ms">> >>,
      ease     |-> << <<"linear", "ease-1">>, <<"default", "ease-2">>, <<"in", "ease-in-2">>,
                      <<"out", "ease-out-2">>, <<"in-out", "ease-in-out-2">> >>,
      layer    |-> << <<"base", "1">>, <<"raised", "10">>, <<"dropdown", "100">>,
                      <<"sticky", "500">>, <<"modal", "1000">>, <<"toast", "2000">> >> ]

DEFAULT_CONFIG ==
    [ format    |-> "oklch",
      prefixes  |-> [primitives |-> "op", palette |-> "md", semantic |-> "ui"],
      output    |-> [dir |-> "./tokens", paletteSubdir |-> "material",
                     openpropsSubdir |-> "open-props"],
      openprops |-> [baseUrl |-> "https://raw.githubusercontent.com/argyleink/open-props/main/src",
                     files |-> <<"fonts", "sizes", "shadows", "borders", "easings">>],
      semantic  |-> DEFAULT_SEMANTIC ]

\* the four sections mergeConfig merges one level down
Sections == {"prefixes", "output", "openprops", "semantic"}

\* a mutant of mergeConfig: the shallow merge, which lets a partial section
\* replace the default section wholesale
mergeConfigShallow(u) == Spread(DEFAULT_CONFIG, u)

mergeConfig(u) ==
    LET top == Spread(DEFAULT_CONFIG, u)
    IN  [k \in DOMAIN top |->
            IF k \in Sections
            THEN Spread(DEFAULT_CONFIG[k], Prop(u, k, NoProps))
            ELSE top[k]]

\* generateTokens, lines 179-195: the configuration a call resolves to.
\* o holds the options given; a missing or empty output is falsy.
TokensConfig(o) ==
    LET userCfg  == Prop(o, "config", NoProps)
        format   == Prop(o, "format", "oklch")
        userOut  == Prop(userCfg, "output", NoProps)
        output   == Prop(o, "output", "")
        dir      == IF output # "" THEN output
                    ELSE IF Prop(userOut, "dir", "") # "" THEN userOut.dir
                    ELSE DEFAULT_CONFIG.output.dir
    IN  mergeConfig(Spread(userCfg,
            [format |-> format, output |-> Spread(userOut, [dir |-> dir])]))

-----------------------------------------------------------------------------
(* The configuration merger on its own: every partial override of a small  *)
(* universe is merged by mergeConfig or by a generateTokens call.          *)

PrefixOverrides == PartialObjects({"primitives", "palette", "semantic"}, {"ui", "x"})

OutputOverrides ==
    {o \in PartialObjects({"dir", "paletteSubdir", "openpropsSubdir"}, {"./out", "css"}) :
        /\ "dir" \in DOMAIN o => o.dir = "./out"
        /\ \A k \in DOMAIN o \ {"dir"} : o[k] = "css"}

OpenPropsOverrides ==
    {NoProps, [baseUrl |-> "https://mirror.test/src"], [files |-> <<"shadows">>],
     [baseUrl |-> "https://mirror.test/src", files |-> <<"sizes", "nonexistent">>]}

SemanticOverrides ==
    {NoProps,
     [space |-> << <<"xs", "size-1">> >>],
     [radius |-> << <<"pill", "radius-round">>, <<"none", "0">> >>],
     [space |-> << <<"gutter", "24px">> >>, layer |-> << <<"base", "0">> >>]}

\* the partial overrides: any choice of sections, each itself partial
UserConfigs ==
    PartialObjects({"format"}, {"hex"}) \cup
    UNION { { [prefixes |-> p, output |-> o, openprops |-> f, semantic |-> s],
              [prefixes |-> p, openprops |-> f],
              [output |-> o, semantic |-> s, format |-> "rgb"] } :
            <<p, o, f, s>> \in PrefixOverrides \X OutputOverrides
                                \X OpenPropsOverrides \X SemanticOverrides }

\* the output/format options of a call
CallOptions == PartialObjects({"output"}, {"", "./dist"}) \cup
               {[format |-> "hex"], [format |-> "hsl", output |-> "./dist"]}

InitConfig ==
    /\ userConfig \in UserConfigs
    /\ callOpt \in CallOptions
    /\ resolved = DEFAULT_CONFIG
    /\ cfgPc = "input"

\* mergeConfig(userConfig)
MergeConfig ==
    /\ cfgPc = "input"
    /\ resolved' = mergeConfig(userConfig)
    /\ cfgPc' = "merged"
    /\ UNCHANGED <<userConfig, callOpt>>

\* the configuration part of generateTokens({...callOpt, config: userConfig})
CallConfig ==
    /\ cfgPc = "input"
    /\ resolved' = TokensConfig(Spread(callOpt, [config |-> userConfig]))
    /\ cfgPc' = "called"
    /\ UNCHANGED <<userConfig, callOpt>>

-----------------------------------------------------------------------------
(* generator.ts: the theme generator over the external colour engine       *)

LowerCase == "abcdefghijklmnopqrstuvwxyz"
UpperCase == "ABCDEFGHIJKLMNOPQRSTUVWXYZ"

\* String.prototype.toUpperCase, one character
UpperCh(c) ==
    IF \E i \in 1..Len(LowerCase) : Ch(LowerCase, i) = c
    THEN Ch(UpperCase, CHOOSE i \in 1..Len(LowerCase) : Ch(LowerCase, i) = c)
    ELSE c

RECURSIVE toUpperCase(_)
toUpperCase(s) ==
    IF s = "" THEN "" ELSE UpperCh(Ch(s, 1)) \o toUpperCase(From(s, 2))

\* generateTheme, lines 293-295
normalizedSeed(seedHex) ==
    IF StartsAt(seedHex, 1, "#") THEN toUpperCase(seedHex)
    ELSE "#" \o toUpperCase(seedHex)

\* argbFromHex of the engine: the colour a hex string denotes, written here
\* as its six upper-case digits (three digits are doubled)
argbFromHex(hex) ==
    LET d == toUpperCase(IF StartsAt(hex, 1, "#") THEN From(hex, 2) ELSE hex)
    IN  IF Len(d) = 3
        THEN Ch(d, 1) \o Ch(d, 1) \o Ch(d, 2) \o Ch(d, 2) \o Ch(d, 3) \o Ch(d, 3)
        ELSE d

CONTRAST_LEVELS == [standard |-> "0.0", medium |-> "0.5", high |-> "1.0"]

SCHEME_VARIANTS ==
    {"tonal-spot", "content", "expressive", "fidelity", "monochrome", "neutral", "vibrant"}

\* the keys of SchemeColors, in the order extractSchemeColors writes them
SCHEME_ROLES ==
    << "primary", "surfaceTint", "onPrimary", "primaryContainer", "onPrimaryContainer",
       "secondary", "onSecondary", "secondaryContainer", "onSecondaryContainer",
       "tertiary", "onTertiary", "tertiaryContainer", "onTertiaryContainer",
       "error", "onError", "errorContainer", "onErrorContainer",
       "background", "onBackground", "surface", "onSurface", "surfaceVariant",
       "onSurfaceVariant", "outline", "outlineVariant",
       "shadow", "scrim", "inverseSurface", "inverseOnSurface", "inversePrimary",
       "primaryFixed", "onPrimaryFixed", "primaryFixedDim", "onPrimaryFixedVariant",
       "secondaryFixed", "onSecondaryFixed", "secondaryFixedDim", "onSecondaryFixedVariant",
       "tertiaryFixed", "onTertiaryFixed", "tertiaryFixedDim", "onTertiaryFixedVariant",
       "surfaceDim", "surfaceBright", "surfaceContainerLowest", "surfaceContainerLow",
       "surfaceContainer", "surfaceContainerHigh", "surfaceContainerHighest" >>

Range(seq) == {seq[i] : i \in DOMAIN seq}

\* new SchemeClass(sourceHct, isDark, contrastLevel): the engine's scheme,
\* known here only by the parameters it was built from
createScheme(sourceHct, isDark, contrastLevel, variant) ==
    [hct |-> sourceHct, isDark |-> isDark, contrast |-> contrastLevel, variant |-> variant]

\* hexFromArgb(scheme.<role>): the engine's colour for a role, one value
\* per (source, variant, mode, contrast, role)
SchemeRoleHex(scheme, role) ==
    "#" \o scheme.hct \o "/" \o scheme.variant \o "/"
        \o (IF scheme.isDark THEN "dark" ELSE "light") \o "/" \o scheme.contrast
        \o "/" \o role

extractSchemeColors(scheme) ==
    [role \in Range(SCHEME_ROLES) |-> SchemeRoleHex(scheme, role)]

TONE_VALUES == <<0, 5, 10, 15, 20, 25, 30, 35, 40, 50, 60, 70, 80, 90, 95, 98, 99, 100>>

\* hexFromArgb(palette.tone(tone)): the engine's colour of one tone step
PaletteToneHex(palette, tone) ==
    "#" \o palette.hct \o "/" \o palette.variant \o "/" \o palette.name
        \o "/" \o ToString(tone)

\* a mutant of extractTonalPalette: the tones above 95 are left out
extractTonalPaletteTo95(palette) ==
    [t \in {ToString(TONE_VALUES[i]) : i \in {j \in DOMAIN TONE_VALUES : TONE_VALUES[j] <= 95}} |->
        PaletteToneHex(palette, CHOOSE v \in Range(TONE_VALUES) : ToString(v) = t)]

extractTonalPalette(palette) ==
    [t \in {ToString(TONE_VALUES[i]) : i \in DOMAIN TONE_VALUES} |->
        PaletteToneHex(palette, CHOOSE v \in Range(TONE_VALUES) : ToString(v) = t)]

\* a mutant of generateSchemes: the high-contrast light scheme is built at
\* the medium level
generateSchemesMediumTwice(sourceHct, variant) ==
    ("light" :> extractSchemeColors(
        createScheme(sourceHct, FALSE, CONTRAST_LEVELS.standard, variant)))
    @@ ("light-medium-contrast" :> extractSchemeColors(
        createScheme(sourceHct, FALSE, CONTRAST_LEVELS.medium, variant)))
    @@ ("light-high-contrast" :> extractSchemeColors(
        createScheme(sourceHct, FALSE, CONTRAST_LEVELS.medium, variant)))
    @@ ("dark" :> extractSchemeColors(
        createScheme(sourceHct, TRUE, CONTRAST_LEVELS.standard, variant)))
    @@ ("dark-medium-contrast" :> extractSchemeColors(
        createScheme(sourceHct, TRUE, CONTRAST_LEVELS.medium, variant)))
    @@ ("dark-high-contrast" :> extractSchemeColors(
        createScheme(sourceHct, TRUE, CONTRAST_LEVELS.high, variant)))

generateSchemes(sourceHct, variant) ==
    ("light" :> extractSchemeColors(
        createScheme(sourceHct, FALSE, CONTRAST_LEVELS.standard, variant)))
    @@ ("light-medium-contrast" :> extractSchemeColors(
        createScheme(sourceHct, FALSE, CONTRAST_LEVELS.medium, variant)))
    @@ ("light-high-contrast" :> extractSchemeColors(
        createScheme(sourceHct, FALSE, CONTRAST_LEVELS.high, variant)))
    @@ ("dark" :> extractSchemeColors(
        createScheme(sourceHct, TRUE, CONTRAST_LEVELS.standard, variant)))
    @@ ("dark-medium-contrast" :> extractSchemeColors(
        createScheme(sourceHct, TRUE, CONTRAST_LEVELS.medium, variant)))
    @@ ("dark-high-contrast" :> extractSchemeColors(
        createScheme(sourceHct, TRUE, CONTRAST_LEVELS.high, variant)))

\* scheme.<name>Palette of the light/standard scheme
SchemePalette(scheme, name) == [hct |-> scheme.hct, variant |-> scheme.variant, name |-> name]

generatePalettes(sourceHct, variant) ==
    LET scheme == createScheme(sourceHct, FALSE, CONTRAST_LEVELS.standard, variant)
    IN  ("primary" :> extractTonalPalette(SchemePalette(scheme, "primary")))
        @@ ("secondary" :> extractTonalPalette(SchemePalette(scheme, "secondary")))
        @@ ("tertiary" :> extractTonalPalette(SchemePalette(scheme, "tertiary")))
        @@ ("neutral" :> extractTonalPalette(SchemePalette(scheme, "neutral")))
        @@ ("neutral-variant" :> extractTonalPalette(SchemePalette(scheme, "neutralVariant")))

\* ticks of the wall clock in one second
TicksPerSecond == 2

Pad2(n) == IF n < 10 THEN "0" \o ToString(n) ELSE ToString(n)

\* new Date().toISOString().replace("T", " ").slice(0, 19) at clock tick t:
\* the time of day, cut to the second
Timestamp(t) ==
    LET sec == t \div TicksPerSecond
    IN  "2026-01-01 00:" \o Pad2((sec \div 60) % 60) \o ":" \o Pad2(sec % 60)

generateTheme(seedHex, variant, t) ==
    LET seed == normalizedSeed(seedHex)
        sourceHct == argbFromHex(seed)
    IN  [ description    |-> "TYPE: CUSTOM\nMaterial Theme Builder export " \o Timestamp(t),
          seed           |-> seed,
          coreColors     |-> [primary |-> seed],
          extendedColors |-> <<>>,
          schemes        |-> generateSchemes(sourceHct, variant),
          palettes       |-> generatePalettes(sourceHct, variant) ]

-----------------------------------------------------------------------------
(* tokens/colors.ts and tokens/css.ts                                      *)

\* culori's conversions are external: each is written as the conversion's
\* name applied to the colour it converts
hexToOklch(hex) == "oklch(" \o hex \o ")"
hexToHsl(hex) == "hsl(" \o hex \o ")"
hexToRgb(hex) == "rgb(" \o hex \o ")"
normalizeHex(hex) == toUpperCase(hex)

formatColor(hex, format) ==
    CASE format = "oklch" -> hexToOklch(hex)
      [] format = "hsl"   -> hexToHsl(hex)
      [] format = "rgb"   -> hexToRgb(hex)
      [] format = "hex"   -> normalizeHex(hex)
      [] OTHER            -> hexToOklch(hex)

\* getHue: the OKLCH hue of a colour, in tenths of a degree
getHue(hex) ==
    LET c == argbFromHex(hex)
    IN  CASE c = "769CDF" -> 2613
          [] c = "E8175D" -> 111
          [] c = "AABBCC" -> 2482
          [] OTHER -> 0

\* Math.round of a value given in tenths
MathRound(tenths) == (tenths + 5) \div 10

\* s.split("\n")
RECURSIVE SplitLines(_)
SplitLines(s) ==
    IF \A i \in 1..Len(s) : Ch(s, i) # "\n" THEN <<s>>
    ELSE LET i == CHOOSE j \in 1..Len(s) :
                    /\ Ch(s, j) = "\n"
                    /\ \A k \in 1..(j - 1) : Ch(s, k) # "\n"
         IN  <<SubSeq(s, 1, i - 1)>> \o SplitLines(From(s, i + 1))

\* a mutant of generateHeader: the title line carries the time as well
generateHeaderTimedTitle(title, source, description, t) ==
    Join(<<"/**", " * " \o title \o " (" \o Timestamp(t) \o ")">>
         \o (IF source # "" THEN <<" * Source: " \o source>> ELSE <<>>)
         \o <<" * Generated: " \o Timestamp(t)>>
         \o (IF description # ""
             THEN <<" *">> \o [i \in DOMAIN SplitLines(description) |->
                                  " * " \o SplitLines(description)[i]]
             ELSE <<>>)
         \o <<" *", " * DO NOT EDIT - Regenerate with: bun src/index.ts tokens", " */", "">>,
         "\n")

\* generateHeader at clock tick t; an absent source or description is ""
generateHeader(title, source, description, t) ==
    Join(<<"/**", " * " \o title>>
         \o (IF source # "" THEN <<" * Source: " \o source>> ELSE <<>>)
         \o <<" * Generated: " \o Timestamp(t)>>
         \o (IF description # ""
             THEN <<" *">> \o [i \in DOMAIN SplitLines(description) |->
                                  " * " \o SplitLines(description)[i]]
             ELSE <<>>)
         \o <<" *", " * DO NOT EDIT - Regenerate with: bun src/index.ts tokens", " */", "">>,
         "\n")

\* the code units of the characters file names are made of, in code order
CodeOrder == "-.0123456789ABCDEFGHIJKLMNOPQRSTUVWXYZabcdefghijklmnopqrstuvwxyz"

CharCode(c) == CHOOSE i \in 1..Len(CodeOrder) : Ch(CodeOrder, i) = c

\* a < b in code-unit order, the order of Array.prototype.sort()
RECURSIVE StrLess(_, _)
StrLess(a, b) ==
    IF b = "" THEN FALSE
    ELSE IF a = "" THEN TRUE
    ELSE IF Ch(a, 1) = Ch(b, 1) THEN StrLess(From(a, 2), From(b, 2))
    ELSE CharCode(Ch(a, 1)) < CharCode(Ch(b, 1))

\* [...seq].sort(compare), a stable sort: each element is inserted after the
\* elements that are not above it
SortBy(seq, Before(_, _)) ==
    LET RECURSIVE Insert(_, _)
        Insert(sorted, x) ==
            IF sorted = <<>> THEN <<x>>
            ELSE IF Before(x, Head(sorted)) THEN <<x>> \o sorted
            ELSE <<Head(sorted)>> \o Insert(Tail(sorted), x)
        RECURSIVE Sort(_)
        Sort(n) == IF n = 0 THEN <<>> ELSE Insert(Sort(n - 1), seq[n])
    IN  Sort(Len(seq))

\* a mutant of generateIndexCSS: the third-party files are imported after
\* semantic.css
generateIndexCSSSemanticFirst(openPropsFiles, prefixes, paletteSubdir, openpropsSubdir, t) ==
    LET sortedFiles == SortBy(openPropsFiles, StrLess)
        header == generateHeader("Tokens Layer - Main Entry Point", "", "Prefix Legend:", t)
    IN  Join(<<header,
               "/* === Tier 1: Warehouses (Primitives) === */",
               "@import \"./" \o paletteSubdir \o "/palettes.css\";",
               "", "/* === Tier 2: Showroom (Semantic) === */", "@import \"./semantic.css\";">>
             \o [i \in DOMAIN sortedFiles |->
                    "@import \"./" \o openpropsSubdir \o "/" \o sortedFiles[i] \o ".css\";"]
             \o <<"", "/* === Tier 3: App-Specific === */", "@import \"./app.css\";", "">>,
             "\n")

generateIndexCSS(openPropsFiles, prefixes, paletteSubdir, openpropsSubdir, t) ==
    LET sortedFiles == SortBy(openPropsFiles, StrLess)
        header == generateHeader("Tokens Layer - Main Entry Point", "",
            "Prefix Legend:\n  --" \o prefixes.palette
            \o "-palette-* = Material Design palettes (raw color steps)\n  --"
            \o prefixes.primitives \o "-*      = Open Props primitives (raw values)\n  --"
            \o prefixes.semantic \o "-*        = Application tokens (USE THESE!)\n\n"
            \o "Tier 1: Warehouses (Primitives)\nTier 2: Showroom (Semantic)\n"
            \o "Tier 3: App-Specific (manual)", t)
    IN  Join(<<header,
               "/* === Tier 1: Warehouses (Primitives) === */",
               "@import \"./" \o paletteSubdir \o "/palettes.css\";">>
             \o [i \in DOMAIN sortedFiles |->
                    "@import \"./" \o openpropsSubdir \o "/" \o sortedFiles[i] \o ".css\";"]
             \o <<"", "/* === Tier 2: Showroom (Semantic) === */", "@import \"./semantic.css\";",
                  "", "/* === Tier 3: App-Specific === */", "@import \"./app.css\";", "">>,
             "\n")

generateAppCSS ==
    "/**\n * App-Specific Tokens\n *\n * This file is NOT generated. Add custom tokens here.\n"
    \o " * These tokens are specific to your application.\n */\n\n:root {\n  /* Layout */\n"
    \o "  --sidebar-width: 240px;\n  --sidebar-width-collapsed: 64px;\n  --header-height: 56px;\n\n"
    \o "  /* Container Widths */\n  --container-sm: 640px;\n  --container-md: 768px;\n"
    \o "  --container-lg: 1024px;\n  --container-xl: 1280px;\n}\n"

-----------------------------------------------------------------------------
(* tokens/semantic.ts                                                      *)

\* <<schemeKey, semanticName, group>>, in output order
COLOR_ROLE_MAP ==
    <<
       <<"primary", "primary", "Primary">>,
       <<"onPrimary", "primary-on", "Primary">>,
       <<"primaryContainer", "primary-container", "Primary">>,
       <<"onPrimaryContainer", "primary-container-on", "Primary">>,
       <<"secondary", "secondary", "Secondary">>,
       <<"onSecondary", "secondary-on", "Secondary">>,
       <<"secondaryContainer", "secondary-container", "Secondary">>,
       <<"onSecondaryContainer", "secondary-container-on", "Secondary">>,
       <<"tertiary", "tertiary", "Tertiary">>,
       <<"onTertiary", "tertiary-on", "Tertiary">>,
       <<"tertiaryContainer", "tertiary-container", "Tertiary">>,
       <<"onTertiaryContainer", "tertiary-container-on", "Tertiary">>,
       <<"surface", "surface", "Surface">>,
       <<"onSurface", "surface-on", "Surface">>,
       <<"surfaceVariant", "surface-variant", "Surface">>,
       <<"onSurfaceVariant", "surface-variant-on", "Surface">>,
       <<"surfaceContainer", "surface-container", "Surface">>,
       <<"surfaceContainerLow", "surface-container-low", "Surface">>,
       <<"surfaceContainerLowest", "surface-container-lowest", "Surface">>,
       <<"surfaceContainerHigh", "surface-container-high", "Surface">>,
       <<"surfaceContainerHighest", "surface-container-highest", "Surface">>,
       <<"surfaceDim", "surface-dim", "Surface">>,
       <<"surfaceBright", "surface-bright", "Surface">>,
       <<"background", "background", "Background">>,
       <<"onBackground", "background-on", "Background">>,
       <<"error", "error", "Error">>,
       <<"onError", "error-on", "Error">>,
       <<"errorContainer", "error-container", "Error">>,
       <<"onErrorContainer", "error-container-on", "Error">>,
       <<"outline", "outline", "Outline">>,
       <<"outlineVariant", "outline-variant", "Outline">>,
       <<"inverseSurface", "inverse-surface", "Inverse">>,
       <<"inverseOnSurface", "inverse-surface-on", "Inverse">>,
       <<"inversePrimary", "inverse-primary", "Inverse">>,
       <<"scrim", "scrim", "Utility">>,
       <<"shadow", "shadow-color", "Utility">>,
       <<"surfaceTint", "surface-tint", "Utility">>
    >>

\* <<key, displayName>>, in output order
SEMANTIC_CATEGORIES ==
    << <<"space", "Spacing Scale">>, <<"radius", "Border Radii">>, <<"shadow", "Shadows">>,
       <<"weight", "Font Weights">>, <<"leading", "Line Heights">>,
       <<"duration", "Durations">>, <<"ease", "Easings">>, <<"layer", "Z-Index Layers">> >>

\* a mutant of formatSemanticValue: a sign or a decimal point opens a
\* number as well
formatSemanticValueSigned(value, primitivesPrefix) ==
    IF value = "0" \/ value = "none" THEN value
    ELSE IF value # "" /\ Ch(value, 1) \in {"0", "1", "2", "3", "4", "5", "6", "7", "8", "9",
                                              "-", "."} THEN value
    ELSE "var(--" \o primitivesPrefix \o "-" \o value \o ")"

formatSemanticValue(value, primitivesPrefix) ==
    IF value = "0" \/ value = "none" THEN value
    ELSE IF value # "" /\ Ch(value, 1) \in {"0", "1", "2", "3", "4", "5", "6", "7", "8", "9"} THEN value
    ELSE "var(--" \o primitivesPrefix \o "-" \o value \o ")"

\* the compare function of sortedKeys, lines 370-379, as "a sorts before b"
SORT_ORDER == <<"none", "xs", "sm", "md", "base", "lg", "xl", "2xl", "3xl", "full">>

IndexOf(seq, x) ==
    IF x \in Range(seq) THEN CHOOSE i \in DOMAIN seq : seq[i] = x /\ \A j \in 1..(i - 1) : seq[j] # x
    ELSE -1

\* String.prototype.toLowerCase, one character
LowerCh(c) ==
    IF \E i \in 1..Len(UpperCase) : Ch(UpperCase, i) = c
    THEN Ch(LowerCase, CHOOSE i \in 1..Len(UpperCase) : Ch(UpperCase, i) = c)
    ELSE c

\* the letters of the collation of a.localeCompare(b), least first:
\* punctuation, digits, then the alphabet, a capital next to its small letter
CollationOrder == "-.0123456789abcdefghijklmnopqrstuvwxyz"

CollationRank(c) == CHOOSE i \in 1..Len(CollationOrder) : Ch(CollationOrder, i) = LowerCh(c)

\* a.localeCompare(b): the first place where the letters differ decides,
\* case set aside; between texts that differ in case only, the first
\* difference decides, the small letter first
RECURSIVE PrimaryCompare(_, _)
PrimaryCompare(a, b) ==
    IF a = "" /\ b = "" THEN 0
    ELSE IF a = "" THEN -1
    ELSE IF b = "" THEN 1
    ELSE IF CollationRank(Ch(a, 1)) # CollationRank(Ch(b, 1))
         THEN (IF CollationRank(Ch(a, 1)) < CollationRank(Ch(b, 1)) THEN -1 ELSE 1)
    ELSE PrimaryCompare(From(a, 2), From(b, 2))

RECURSIVE CaseCompare(_, _)
CaseCompare(a, b) ==
    IF a = "" \/ b = "" THEN 0
    ELSE IF Ch(a, 1) = Ch(b, 1) THEN CaseCompare(From(a, 2), From(b, 2))
    ELSE IF Ch(a, 1) = LowerCh(Ch(a, 1)) THEN -1 ELSE 1

localeCompare(a, b) ==
    IF PrimaryCompare(a, b) # 0 THEN PrimaryCompare(a, b) ELSE CaseCompare(a, b)

\* a mutant of KeyBefore: two keys outside the list compare as equal, so
\* the sort leaves them as configured
KeyBeforeListOnly(a, b) ==
    LET aIdx == IndexOf(SORT_ORDER, a)
        bIdx == IndexOf(SORT_ORDER, b)
    IN  IF aIdx # -1 /\ bIdx # -1 THEN aIdx < bIdx
        ELSE IF aIdx # -1 THEN TRUE
        ELSE FALSE

KeyBefore(a, b) ==
    LET aIdx == IndexOf(SORT_ORDER, a)
        bIdx == IndexOf(SORT_ORDER, b)
    IN  IF aIdx # -1 /\ bIdx # -1 THEN aIdx < bIdx
        ELSE IF aIdx # -1 THEN TRUE
        ELSE IF bIdx # -1 THEN FALSE
        ELSE localeCompare(a, b) < 0

\* tokens[key] of a category given as <<key, value>> pairs
TokenValue(tokens, key) == tokens[CHOOSE i \in DOMAIN tokens : tokens[i][1] = key][2]

\* a mutant of ColorLines: the dark value is written first
ColorLinesDarkFirst(lightScheme, darkScheme, prefixes, format) ==
    LET Skipped(i) == \/ Prop(lightScheme, COLOR_ROLE_MAP[i][1], "") = ""
                      \/ Prop(darkScheme, COLOR_ROLE_MAP[i][1], "") = ""
        GroupBefore(i) ==
            IF \A j \in 1..(i - 1) : Skipped(j) THEN ""
            ELSE COLOR_ROLE_MAP[CHOOSE j \in 1..(i - 1) :
                    ~Skipped(j) /\ \A k \in (j + 1)..(i - 1) : Skipped(k)][3]
        RoleLines(i) ==
            LET role == COLOR_ROLE_MAP[i]
            IN  IF Skipped(i) THEN <<>>
                ELSE (IF role[3] # GroupBefore(i)
                      THEN (IF GroupBefore(i) # "" THEN <<"">> ELSE <<>>)
                           \o <<"    /* " \o role[3] \o " */">>
                      ELSE <<>>)
                     \o <<"    --" \o prefixes.semantic \o "-color-" \o role[2] \o ": light-dark("
                          \o formatColor(darkScheme[role[1]], format) \o ", "
                          \o formatColor(lightScheme[role[1]], format) \o ");">>
    IN  Flatten([i \in DOMAIN COLOR_ROLE_MAP |-> RoleLines(i)])

\* a mutant of ColorLines: the group is compared with the group of the
\* role before, emitted or not, so a skipped role brings the header again
ColorLinesGroupOfLastRole(lightScheme, darkScheme, prefixes, format) ==
    LET Skipped(i) == \/ Prop(lightScheme, COLOR_ROLE_MAP[i][1], "") = ""
                      \/ Prop(darkScheme, COLOR_ROLE_MAP[i][1], "") = ""
        GroupBefore(i) ==
            IF i = 1 \/ Skipped(i - 1) THEN "" ELSE COLOR_ROLE_MAP[i - 1][3]
        RoleLines(i) ==
            LET role == COLOR_ROLE_MAP[i]
            IN  IF Skipped(i) THEN <<>>
                ELSE (IF role[3] # GroupBefore(i)
                      THEN (IF i > 1 THEN <<"">> ELSE <<>>)
                           \o <<"    /* " \o role[3] \o " */">>
                      ELSE <<>>)
                     \o <<"    --" \o prefixes.semantic \o "-color-" \o role[2] \o ": light-dark("
                          \o formatColor(lightScheme[role[1]], format) \o ", "
                          \o formatColor(darkScheme[role[1]], format) \o ");">>
    IN  Flatten([i \in DOMAIN COLOR_ROLE_MAP |-> RoleLines(i)])

\* the colour lines of generateSemanticCSS, lines 328-349: the loop over
\* COLOR_ROLE_MAP from role i on, with the group of the last emitted role
ColorLines(lightScheme, darkScheme, prefixes, format) ==
    LET Skipped(i) == \/ Prop(lightScheme, COLOR_ROLE_MAP[i][1], "") = ""
                      \/ Prop(darkScheme, COLOR_ROLE_MAP[i][1], "") = ""
        \* currentGroup when the loop reaches role i
        GroupBefore(i) ==
            IF \A j \in 1..(i - 1) : Skipped(j) THEN ""
            ELSE COLOR_ROLE_MAP[CHOOSE j \in 1..(i - 1) :
                    ~Skipped(j) /\ \A k \in (j + 1)..(i - 1) : Skipped(k)][3]
        RoleLines(i) ==
            LET role == COLOR_ROLE_MAP[i]
            IN  IF Skipped(i) THEN <<>>
                ELSE (IF role[3] # GroupBefore(i)
                      THEN (IF GroupBefore(i) # "" THEN <<"">> ELSE <<>>)
                           \o <<"    /* " \o role[3] \o " */">>
                      ELSE <<>>)
                     \o <<"    --" \o prefixes.semantic \o "-color-" \o role[2] \o ": light-dark("
                          \o formatColor(lightScheme[role[1]], format) \o ", "
                          \o formatColor(darkScheme[role[1]], format) \o ");">>
    IN  Flatten([i \in DOMAIN COLOR_ROLE_MAP |-> RoleLines(i)])

\* the lines of one non-colour category, lines 362-387
CategoryLines(category, semantic, prefixes) ==
    LET tokens == Prop(semantic, category[1], <<>>)
        keys == [i \in DOMAIN tokens |-> tokens[i][1]]
        sortedKeys == SortBy(keys, KeyBefore)
    IN  IF tokens = <<>> THEN <<>>
        ELSE <<"", "    /* " \o category[2] \o " */">>
             \o [i \in DOMAIN sortedKeys |->
                    "    --" \o prefixes.semantic \o "-" \o category[1] \o "-" \o sortedKeys[i]
                    \o ": " \o formatSemanticValue(TokenValue(tokens, sortedKeys[i]),
                                                   prefixes.primitives) \o ";"]

AllCategoryLines(semantic, prefixes) ==
    Flatten([i \in DOMAIN SEMANTIC_CATEGORIES |->
                CategoryLines(SEMANTIC_CATEGORIES[i], semantic, prefixes)])

\* the `lines` array of generateSemanticCSS; seedHue in tenths of a degree
SemanticLines(lightScheme, darkScheme, semantic, prefixes, format, seedHue, t) ==
    <<generateHeader("Semantic Tokens (Tier 2) - THE APPLICATION API",
        "Generated from seed color",
        "Naming: --" \o prefixes.semantic \o "-[category]-[role]\n\n"
        \o "This is the ONLY file developers should reference.\n"
        \o "All tokens start with --" \o prefixes.semantic \o "-\n\n"
        \o "Uses CSS light-dark() for reactive theming.", t),
      "@layer ui.theme {", "  :root {", "    color-scheme: light dark;", "">>
    \o ColorLines(lightScheme, darkScheme, prefixes, format)
    \o <<"", "    /* Shadow Color (for atomic shadows) */",
         "    --" \o prefixes.semantic
            \o "-color-shadow: light-dark(oklch(0 0 0 / 0.1), oklch(0 0 0 / 0.6));",
         "", "    /* Shadow Hue (derived from seed color) */",
         "    --" \o prefixes.semantic \o "-shadow-hue: " \o ToString(MathRound(seedHue)) \o ";">>
    \o AllCategoryLines(semantic, prefixes)
    \o <<"  }", "", "  /* Theme Toggles */",
         "  :root[data-theme=\"light\"] { color-scheme: light; }",
         "  :root[data-theme=\"dark\"] { color-scheme: dark; }",
         "}", "">>

generateSemanticCSS(lightScheme, darkScheme, semantic, prefixes, format, seedHue, t) ==
    Join(SemanticLines(lightScheme, darkScheme, semantic, prefixes, format, seedHue, t), "\n")

-----------------------------------------------------------------------------
(* tokens/palettes.ts                                                      *)

PALETTE_ORDER == <<"primary", "secondary", "tertiary", "error", "neutral", "neutral-variant">>

TONE_STEPS == <<"0", "5", "10", "15", "20", "25", "30", "35", "40",
                "50", "60", "70", "80", "90", "95", "98", "99", "100">>

PALETTE_DISPLAY_NAMES ==
    ("primary" :> "Primary") @@ ("secondary" :> "Secondary") @@ ("tertiary" :> "Tertiary")
    @@ ("error" :> "Error") @@ ("neutral" :> "Neutral")
    @@ ("neutral-variant" :> "Neutral Variant")

\* a mutant of StepLines: the steps from the lightest to the darkest
StepLinesLightestFirst(paletteName, palette, prefixes, format) ==
    Flatten([i \in DOMAIN TONE_STEPS |->
        LET step == TONE_STEPS[Len(TONE_STEPS) + 1 - i]
        IN  IF Prop(palette, step, "") = "" THEN <<>>
            ELSE <<"  --" \o prefixes.palette \o "-palette-" \o paletteName \o "-"
                   \o step \o ": " \o formatColor(palette[step], format) \o ";">>])

\* the lines of one palette, lines 472-481
StepLines(paletteName, palette, prefixes, format) ==
    Flatten([i \in DOMAIN TONE_STEPS |->
        IF Prop(palette, TONE_STEPS[i], "") = "" THEN <<>>
        ELSE <<"  --" \o prefixes.palette \o "-palette-" \o paletteName \o "-"
               \o TONE_STEPS[i] \o ": " \o formatColor(palette[TONE_STEPS[i]], format) \o ";">>])

\* the loop over PALETTE_ORDER, lines 461-482, from palette i on
RECURSIVE PaletteLines(_, _, _, _, _)
PaletteLines(i, first, palettes, prefixes, format) ==
    IF i > Len(PALETTE_ORDER) THEN <<>>
    ELSE LET paletteName == PALETTE_ORDER[i]
         IN  IF paletteName \notin DOMAIN palettes
             THEN PaletteLines(i + 1, first, palettes, prefixes, format)
             ELSE (IF first THEN <<>> ELSE <<"">>)
                  \o <<"  /* " \o Prop(PALETTE_DISPLAY_NAMES, paletteName, paletteName)
                       \o " palette */">>
                  \o StepLines(paletteName, palettes[paletteName], prefixes, format)
                  \o PaletteLines(i + 1, FALSE, palettes, prefixes, format)

generatePalettesCSS(palettes, seed, prefixes, format, t) ==
    Join(<<generateHeader("Material Design Palettes (Tier 1 Primitives)",
             "Material Theme Builder",
             "Seed: " \o seed \o " (" \o hexToOklch(seed) \o ")\nFormat: "
             \o toUpperCase(format) \o "\nPrefix: --" \o prefixes.palette \o "-palette-*", t),
           ":root {">>
         \o PaletteLines(1, TRUE, palettes, prefixes, format)
         \o <<"}", "">>,
         "\n")

-----------------------------------------------------------------------------
(* Regular expressions over text.  A pattern is a sequence of items; the   *)
(* matcher tries the alternatives in the order the JavaScript engine       *)
(* does: the first alternative first, the longest repetition first.        *)

WhiteSpace == {" ", "\n", "\t", "\r"}
Digits == {"0", "1", "2", "3", "4", "5", "6", "7", "8", "9"}
Letters == {SubSeq(LowerCase, i, i) : i \in 1..Len(LowerCase)}
           \cup {SubSeq(UpperCase, i, i) : i \in 1..Len(UpperCase)}

IsSpace(c) == c \in WhiteSpace

\* the items: a literal, a character class repeated min to max times
\* (max = 0: no limit), ^ under the m flag, an alternation, the two ends of
\* capture group n
Lit(text) == [t |-> "lit", v |-> text]
Class(chars, neg, min, max) == [t |-> "class", v |-> chars, neg |-> neg, min |-> min, max |-> max]
Star(chars) == Class(chars, FALSE, 0, 0)
Plus(chars) == Class(chars, FALSE, 1, 0)
One(chars) == Class(chars, FALSE, 1, 1)
Opt(chars) == Class(chars, FALSE, 0, 1)
NotPlus(chars) == Class(chars, TRUE, 1, 0)
Bol == [t |-> "bol"]
Alt(seqs) == [t |-> "alt", v |-> seqs]
Open(n) == [t |-> "open", v |-> n]
Close(n) == [t |-> "close", v |-> n]

MaxGroups == 4
NoCaps == [n \in 1..MaxGroups |-> <<0, 0>>]
NoMatch == [ok |-> FALSE, from |-> 0, to |-> 0, caps |-> NoCaps]

InClass(item, c) == (c \in item.v) # item.neg

\* how many characters from i on the class can take
RunLength(item, s, i) ==
    LET last == IF item.max = 0 \/ i + item.max - 1 > Len(s) THEN Len(s) ELSE i + item.max - 1
    IN  IF \E j \in i..last : ~InClass(item, SubSeq(s, j, j))
        THEN (CHOOSE j \in i..last :
                /\ ~InClass(item, SubSeq(s, j, j))
                /\ \A k \in i..(j - 1) : InClass(item, SubSeq(s, k, k))) - i
        ELSE last - i + 1

\* the match of items k.. of re at position i of s, given the groups so far
RECURSIVE MatchFrom(_, _, _, _, _, _)
MatchFrom(re, k, s, start, i, caps) ==
    IF k > Len(re) THEN [ok |-> TRUE, from |-> start, to |-> i, caps |-> caps]
    ELSE
    CASE re[k].t = "lit" ->
            IF StartsAt(s, i, re[k].v)
            THEN MatchFrom(re, k + 1, s, start, i + Len(re[k].v), caps)
            ELSE NoMatch
      [] re[k].t = "bol" ->
            IF i = 1 \/ SubSeq(s, i - 1, i - 1) \in {"\n", "\r"}
            THEN MatchFrom(re, k + 1, s, start, i, caps)
            ELSE NoMatch
      [] re[k].t = "open" ->
            MatchFrom(re, k + 1, s, start, i, [caps EXCEPT ![re[k].v] = <<i, i>>])
      [] re[k].t = "close" ->
            MatchFrom(re, k + 1, s, start, i, [caps EXCEPT ![re[k].v] = <<caps[re[k].v][1], i>>])
      [] re[k].t = "alt" ->
            LET rest == SubSeq(re, k + 1, Len(re))
                Try(a) == MatchFrom(re[k].v[a] \o rest, 1, s, start, i, caps)
                alts == DOMAIN re[k].v
            IN  IF \E a \in alts : Try(a).ok
                THEN Try(CHOOSE a \in alts : Try(a).ok /\ \A a2 \in 1..(a - 1) : ~Try(a2).ok)
                ELSE NoMatch
      [] re[k].t = "class" ->
            LET longest == RunLength(re[k], s, i)
                Try(n) == MatchFrom(re, k + 1, s, start, i + n, caps)
                counts == re[k].min..longest
            IN  IF longest < re[k].min THEN NoMatch
                ELSE IF Try(longest).ok THEN Try(longest)
                ELSE IF \E n \in counts : Try(n).ok
                THEN Try(CHOOSE n \in counts : Try(n).ok /\ \A n2 \in (n + 1)..longest : ~Try(n2).ok)
                ELSE NoMatch

MatchAt(re, s, i) == MatchFrom(re, 1, s, i, i, NoCaps)

\* regex.exec from position i on: the first position where re matches
Exec(re, s, i) ==
    IF \E j \in i..(Len(s) + 1) : MatchAt(re, s, j).ok
    THEN MatchAt(re, s, CHOOSE j \in i..(Len(s) + 1) :
                            /\ MatchAt(re, s, j).ok
                            /\ \A k \in i..(j - 1) : ~MatchAt(re, s, k).ok)
    ELSE NoMatch

\* $n of a match
Group(s, m, n) == SubSeq(s, m.caps[n][1], m.caps[n][2] - 1)

\* text.replace(/re/g, replacement): every match, left to right, each
\* search starting where the last match ended (no pattern here matches
\* the empty text)
ReplaceAll(text, re, Replacement(_, _)) ==
    LET RECURSIVE Rest(_, _)
        Rest(s, i) ==
            LET m == Exec(re, s, i)
            IN  IF ~m.ok THEN From(s, i)
                ELSE SubSeq(s, i, m.from - 1) \o Replacement(s, m) \o Rest(s, m.to)
        All(s) == Rest(s, 1)
    IN  Then(text, All)

\* text.replace(/re/, replacement): the first match only
ReplaceFirst(text, re, Replacement(_, _)) ==
    LET First(s) ==
            LET m == Exec(re, s, 1)
            IN  IF ~m.ok THEN s
                ELSE SubSeq(s, 1, m.from - 1) \o Replacement(s, m) \o From(s, m.to)
    IN  Then(text, First)

\* s.trim()
Trim(s) ==
    IF \A i \in 1..Len(s) : IsSpace(SubSeq(s, i, i)) THEN ""
    ELSE SubSeq(s,
            CHOOSE a \in 1..Len(s) :
                ~IsSpace(SubSeq(s, a, a)) /\ \A k \in 1..(a - 1) : IsSpace(SubSeq(s, k, k)),
            CHOOSE e \in 1..Len(s) :
                ~IsSpace(SubSeq(s, e, e)) /\ \A k \in (e + 1)..Len(s) : IsSpace(SubSeq(s, k, k)))

-----------------------------------------------------------------------------
(* tokens/openprops.ts: the Open Props adapter                             *)

Quotes == {"'", "\""}

\* /@import\s+['"][^'"]+['"]\s*;?\s*\n?/g
ImportRe ==
    <<Lit("@import"), Plus(WhiteSpace), One(Quotes), NotPlus(Quotes), One(Quotes),
      Star(WhiteSpace), Opt({";"}), Star(WhiteSpace), Opt({"\n"})>>

\* /:where\(html\)/g
WhereHtmlRe == <<Lit(":where(html)")>>

\* /@media\s*\(--OSdark\)\s*\{/g
OSdarkRe == <<Lit("@media"), Star(WhiteSpace), Lit("(--OSdark)"), Star(WhiteSpace), Lit("{")>>

\* /(--shadow-color:\s*)[\d\s%]+;/g
ShadowColorRe ==
    <<Open(1), Lit("--shadow-color:"), Star(WhiteSpace), Close(1),
      Plus(Digits \cup WhiteSpace \cup {"%"}), Lit(";")>>

\* /@media\s*\(prefers-color-scheme:\s*dark\)\s*\{\s*:(?:root|where\(html\))\s*\{([^}]+)\}\s*\}/
DarkSectionRe ==
    <<Lit("@media"), Star(WhiteSpace), Lit("(prefers-color-scheme:"), Star(WhiteSpace),
      Lit("dark)"), Star(WhiteSpace), Lit("{"), Star(WhiteSpace), Lit(":"),
      Alt(<< <<Lit("root")>>, <<Lit("where(html)")>> >>), Star(WhiteSpace), Lit("{"),
      Open(1), NotPlus({"}"}), Close(1), Lit("}"), Star(WhiteSpace), Lit("}")>>

\* a mutant of injectShadowColor's replacement: the media-query copy without
\* the :not([data-theme="light"]) guard
DarkReplacementNoGuard(darkContent) ==
    "[data-theme=\"dark\"] {" \o darkContent \o "}\n\n@media (prefers-color-scheme: dark) {\n"
    \o "  :root {" \o darkContent \o "}\n}"

\* the replacement string of lines 111-115
DarkReplacement(darkContent) ==
    "[data-theme=\"dark\"] {" \o darkContent \o "}\n\n@media (prefers-color-scheme: dark) {\n"
    \o "  :root:not([data-theme=\"light\"]) {" \o darkContent \o "}\n}"

\* seedHue in tenths of a degree
LightShadowColor(seedHue) == ToString(MathRound(seedHue)) \o " 10% 15%"
DarkShadowColor(seedHue) == ToString(MathRound(seedHue)) \o " 30% 5%"

injectShadowColor(css0, seedHue) ==
    LET LightTint(s, m) == Group(s, m, 1) \o LightShadowColor(seedHue) \o ";"
        DarkTint(s, m) == Group(s, m, 1) \o DarkShadowColor(seedHue) \o ";"
        Dark(s, m) == DarkReplacement(ReplaceAll(Group(s, m, 1), ShadowColorRe, DarkTint))
        Result(css1) ==
            IF Exec(DarkSectionRe, css1, 1).ok
            THEN ReplaceFirst(css1, DarkSectionRe, Dark)
            ELSE css1
    IN  Then(ReplaceAll(css0, ShadowColorRe, LightTint), Result)

transformOpenPropsCSS(css0, fileName, seedHue) ==
    LET Nothing(s, m) == ""
        Root(s, m) == ":root"
        PrefersDark(s, m) == "@media (prefers-color-scheme: dark) {"
        NoImport(text) == ReplaceAll(text, ImportRe, Nothing)
        NoWhere(text) == ReplaceAll(text, WhereHtmlRe, Root)
        NoOSdark(text) == ReplaceAll(text, OSdarkRe, PrefersDark)
        Tinted(text) == IF fileName = "shadows" THEN injectShadowColor(text, seedHue) ELSE text
    IN  Then(Then(Then(Then(NoImport(css0), NoWhere), NoOSdark), Tinted), Trim)

NameChars == Letters \cup Digits \cup {"-"}

\* /(^|\s|;)(--)(([a-zA-Z][a-zA-Z0-9-]*))\s*:/gm
PrefixRe ==
    <<Open(1), Alt(<< <<Bol>>, <<One(WhiteSpace)>>, <<Lit(";")>> >>), Close(1),
      Open(2), Lit("--"), Close(2),
      Open(3), Open(4), One(Letters), Star(NameChars), Close(4), Close(3),
      Star(WhiteSpace), Lit(":")>>

\* /(--)([a-zA-Z][a-zA-Z0-9-]*)/g
AnyNameRe == <<Open(1), Lit("--"), Close(1), Open(2), One(Letters), Star(NameChars), Close(2)>>

\* a mutant of prefixOpenPropsCSS: every --name is renamed, whatever stands
\* before and after it
prefixEveryName(css0, prefix) ==
    LET Renamed(s, m) == "--" \o prefix \o "-" \o Group(s, m, 2)
    IN  ReplaceAll(css0, AnyNameRe, Renamed)

\* the replacement `$1--${prefix}-$3:`
prefixOpenPropsCSS(css0, prefix) ==
    LET Renamed(s, m) == Group(s, m, 1) \o "--" \o prefix \o "-" \o Group(s, m, 3) \o ":"
    IN  ReplaceAll(css0, PrefixRe, Renamed)

\* name.charAt(0).toUpperCase() + name.slice(1) + " Tokens"
OpenPropsTitle(name) ==
    (IF name = "" THEN "" ELSE UpperCh(Ch(name, 1)) \o From(name, 2)) \o " Tokens"

generateOpenPropsCSS(name, content, prefix, seedHue, t) ==
    generateHeader(OpenPropsTitle(name), "Open Props (https://open-props.style)", "", t)
    \o prefixOpenPropsCSS(transformOpenPropsCSS(content, name, seedHue), prefix) \o "\n"

OPENPROPS_SOURCE_FILES ==
    [ fonts |-> "props.fonts.css", sizes |-> "props.sizes.css",
      shadows |-> "props.shadows.css", borders |-> "props.borders.css",
      easings |-> "props.easing.css", animations |-> "props.animations.css",
      aspects |-> "props.aspects.css", zindex |-> "props.zindex.css" ]

-----------------------------------------------------------------------------
(* The adapter on its own: a fetched stylesheet is transformed, prefixed   *)
(* and emitted.  The stylesheets have the shape of the Open Props sources: *)
(* an optional @import, a :where(html) block of declarations and, for      *)
(* some, an @media (--OSdark) block; written spaced out or compact.        *)

SizesDecls ==
    { <<"--size-1: .25rem", "--size-2: calc(var(--size-1) * 2)">>,
      <<"--size-1:.25rem", "--size-fluid-1:clamp(.5rem, 1vw, 1rem)",
        "--size-content-1 : var(--size-1)">> }

ShadowsDecls ==
    { <<"--shadow-color: 220 3% 15%", "--shadow-strength: 1%",
        "--shadow-1: 0 1px 2px -1px hsl(var(--shadow-color) / calc(var(--shadow-strength) + 9%))">>,
      <<"--shadow-strength:1%", "--shadow-color:220 3% 15%">> }

DarkDecls == <<"--shadow-color: 220 40% 2%", "--shadow-strength: 25%">>

\* how a block is laid out: <<before the first declaration, between
\* declarations, after the last one>>
Layouts ==
    { <<" {\n  ", ";\n  ", ";\n}">>,     \* one declaration per line
      <<" { ", "; ", "; }">>,            \* one line, spaced
      <<"{", ";", "}">> }                \* minified

Block(selector, decls, layout) ==
    selector \o layout[1] \o Join(decls, layout[2]) \o layout[3]

DarkBlock(layout) ==
    "@media (--OSdark)" \o layout[1] \o Block(":where(html)", DarkDecls, layout)
    \o (IF layout[1] = "{" THEN "}" ELSE "\n}")

Stylesheet(import, decls, layout, dark) ==
    (IF import THEN "@import 'props.media.css';\n\n" ELSE "")
    \o Block(":where(html)", decls, layout)
    \o (IF dark THEN "\n\n" \o DarkBlock(layout) ELSE "")
    \o "\n"

SizesSheets ==
    {Stylesheet(i, d, l, FALSE) : i \in BOOLEAN, d \in SizesDecls, l \in Layouts}

ShadowsSheets ==
    {Stylesheet(i, d, l, k) : i \in BOOLEAN, d \in ShadowsDecls, l \in Layouts, k \in BOOLEAN}

\* sheets with the other ways of writing an import and a dark-mode block
ImportSheets ==
    { "@import \"props.media.css\"\n:where(html){--size-1:.25rem}\n",
      "@import 'props.media.css';@import 'props.easing.css';\n\n@media (--OSdark)\n{\n"
        \o "  :where(html) { --size-1: 1rem; }\n}\n",
      "@import url(\"props.media.css\");\n\n:where(html) {\n  --size-1: .25rem;\n}\n",
      ":where(html) {\n  --size-1: .25rem;\n}\n\n@media (--OSdark) and (min-width: 40em) {\n"
        \o "  :where(html) {\n    --size-1: .5rem;\n  }\n}\n" }

AdapterArgs == [prefix : {"op", "x"}, seedHue : {2613, 111}]

ParkedText ==
    /\ css = "" /\ cssName = "" /\ cssArg = [prefix |-> "op", seedHue |-> 0]
    /\ cssRaw = "" /\ cssMid = "" /\ cssPc = "parked"

InitText ==
    /\ \/ cssName = "sizes" /\ cssRaw \in SizesSheets \cup ImportSheets
       \/ cssName = "shadows" /\ cssRaw \in ShadowsSheets
    /\ cssArg \in AdapterArgs
    /\ css = cssRaw
    /\ cssMid = ""
    /\ cssPc = "raw"

\* transformOpenPropsCSS(content, name, seedHue)
Transform ==
    /\ cssPc = "raw"
    /\ css' = transformOpenPropsCSS(css, cssName, cssArg.seedHue)
    /\ cssMid' = css'
    /\ cssPc' = "transformed"
    /\ UNCHANGED <<cssName, cssArg, cssRaw>>

\* prefixOpenPropsCSS(transformed, prefix)
Prefix ==
    /\ cssPc = "transformed"
    /\ css' = prefixOpenPropsCSS(css, cssArg.prefix)
    /\ cssPc' = "prefixed"
    /\ UNCHANGED <<cssName, cssArg, cssRaw, cssMid>>

\* generateOpenPropsCSS(name, content, prefix, seedHue) returns
Emit ==
    /\ cssPc = "prefixed"
    /\ css' = generateOpenPropsCSS(cssName, cssRaw, cssArg.prefix, cssArg.seedHue, now)
    /\ cssPc' = "emitted"
    /\ UNCHANGED <<cssName, cssArg, cssRaw, cssMid>>

-----------------------------------------------------------------------------
(* tokens/index.ts: generateTokens and the output directory                *)

\* the run slots: up to two calls of generateTokens
Runs == {1, 2}

\* the last tick of the wall clock
MaxTime == 2

\* path.join(dir, name) for the directories used here
NormalizePath(dir) == IF StartsAt(dir, 1, "./") THEN From(dir, 3) ELSE dir

PathJoin(dir, name) == NormalizePath(dir) \o "/" \o name

NoFiles == [path \in {} |-> ""]

\* writeFile(path, text)
WriteFile(files, path, text) == Spread(files, [q \in {path} |-> text])

outputDir(c) == NormalizePath(c.output.dir)
materialDir(c) == PathJoin(c.output.dir, c.output.paletteSubdir)
openPropsDir(c) == PathJoin(c.output.dir, c.output.openpropsSubdir)

palettesPath(c) == PathJoin(materialDir(c), "palettes.css")
\* the file written next to index.css instead of under the Open Props directory
openPropsPathFlat(c, name) == PathJoin(c.output.dir, name \o ".css")

openPropsPath(c, name) == PathJoin(openPropsDir(c), name \o ".css")
semanticPath(c) == PathJoin(c.output.dir, "semantic.css")
indexPath(c) == PathJoin(c.output.dir, "index.css")
appPath(c) == PathJoin(c.output.dir, "app.css")

\* what the Open Props server returns for a source file
ServedText(name) ==
    CASE name = "shadows" ->
            Stylesheet(TRUE,
                <<"--shadow-color: 220 3% 15%", "--shadow-strength: 1%",
                  "--shadow-1: 0 1px 2px -1px hsl(var(--shadow-color) / calc(var(--shadow-strength) + 9%))">>,
                <<" {\n  ", ";\n  ", ";\n}">>, TRUE)
      [] name = "sizes" ->
            Stylesheet(FALSE, <<"--size-1: .25rem", "--size-2: calc(var(--size-1) * 2)">>,
                <<" {\n  ", ";\n  ", ";\n}">>, FALSE)
      [] OTHER ->
            Stylesheet(TRUE, <<"--" \o name \o "-1: 1">>, <<" {\n  ", ";\n  ", ";\n}">>, FALSE)

\* the ways a started fetch ends: response.ok, a non-OK status, a network
\* error, the abort of the 30 s timer
FetchFailures == {"status", "network", "timeout"}

FetchError(name, outcome) ==
    CASE outcome = "status"  -> "Failed to fetch " \o name \o ": 404"
      [] outcome = "network" -> "fetch failed: " \o name
      [] outcome = "timeout" -> "The operation was aborted: " \o name

UnknownFileError(name) == "Unknown Open Props file: " \o name

NoTheme ==
    [description |-> "", seed |-> "", coreColors |-> [primary |-> ""],
     extendedColors |-> <<>>, schemes |-> NoProps, palettes |-> NoProps]

InitPipe ==
    /\ fs = NoFiles
    /\ dirs = {}
    /\ pc = [p \in Runs |-> "idle"]
    /\ opt = [p \in Runs |-> [seed |-> ""]]
    /\ cfg = [p \in Runs |-> DEFAULT_CONFIG]
    /\ theme = [p \in Runs |-> NoTheme]
    /\ widx = [p \in Runs |-> 0]
    /\ appExists = [p \in Runs |-> "unchecked"]
    /\ req = [p \in Runs |-> <<>>]
    /\ netlog = [p \in Runs |-> <<>>]
    /\ err = [p \in Runs |-> ""]
    /\ out = [p \in Runs |-> NoFiles]
    /\ now = 0

\* no run is in progress
Quiet == \A p \in Runs : pc[p] \in {"idle", "done", "failed"}

\* generateTokens(o) is called: lines 178-199
Start(p, o) ==
    /\ pc[p] = "idle"
    /\ pc' = [pc EXCEPT ![p] = "mkdir"]
    /\ opt' = [opt EXCEPT ![p] = o]
    /\ cfg' = [cfg EXCEPT ![p] = TokensConfig(o)]
    /\ UNCHANGED <<fs, dirs, theme, widx, appExists, req, netlog, err, out, now>>

\* lines 203-214: the directories, then generateTheme(seed, scheme)
Mkdir(p) ==
    /\ pc[p] = "mkdir"
    /\ dirs' = dirs \cup {outputDir(cfg[p]), materialDir(cfg[p]), openPropsDir(cfg[p])}
    /\ theme' = [theme EXCEPT ![p] =
                    generateTheme(opt[p].seed, Prop(opt[p], "scheme", "tonal-spot"), now)]
    /\ pc' = [pc EXCEPT ![p] = "palettes"]
    /\ UNCHANGED <<fs, opt, cfg, widx, appExists, req, netlog, err, out, now>>

\* a write of the run: the file system and the run's own record of it
Written(p, path, text) ==
    /\ fs' = WriteFile(fs, path, text)
    /\ out' = [out EXCEPT ![p] = WriteFile(out[p], path, text)]

\* lines 216-225
WritePalettes(p) ==
    /\ pc[p] = "palettes"
    /\ Written(p, palettesPath(cfg[p]),
               generatePalettesCSS(theme[p].palettes, opt[p].seed, cfg[p].prefixes,
                                   cfg[p].format, now))
    /\ pc' = [pc EXCEPT ![p] = "fetch"]
    /\ UNCHANGED <<dirs, opt, cfg, theme, widx, appExists, req, netlog, err, now>>

\* fetchAllOpenProps up to its await, lines 173-182: fileNames.map calls
\* fetchOpenProps for every name in turn; each call throws for an unknown
\* name and otherwise starts its request before it first awaits
FetchEvents(fileNames) ==
    [i \in DOMAIN fileNames |->
        IF fileNames[i] \in DOMAIN OPENPROPS_SOURCE_FILES
        THEN [event |-> "request", name |-> fileNames[i]]
        ELSE [event |-> "throw", name |-> fileNames[i]]]

FirstThrow(events) ==
    IF \E i \in DOMAIN events : events[i].event = "throw"
    THEN CHOOSE i \in DOMAIN events :
            /\ events[i].event = "throw"
            /\ \A j \in 1..(i - 1) : events[j].event # "throw"
    ELSE 0

FetchAll(p) ==
    LET fileNames == cfg[p].openprops.files
        events == FetchEvents(fileNames)
    IN  /\ pc[p] = "fetch"
        /\ netlog' = [netlog EXCEPT ![p] = events]
        /\ req' = [req EXCEPT ![p] =
                    [i \in DOMAIN events |->
                        [name |-> events[i].name,
                         state |-> IF events[i].event = "request" THEN "pending" ELSE "rejected",
                         css |-> ""]]]
        /\ err' = [err EXCEPT ![p] =
                    IF FirstThrow(events) = 0 THEN ""
                    ELSE UnknownFileError(events[FirstThrow(events)].name)]
        /\ pc' = [pc EXCEPT ![p] = "await"]
        /\ UNCHANGED <<fs, dirs, opt, cfg, theme, widx, appExists, out, now>>

\* one fetch settles, lines 39-48 and 177-179: with a body, which is
\* adapted at once, or with a failure; Promise.all takes the first
\* rejection, and the run resumes before another fetch settles
Settle(p, i, outcome) ==
    /\ pc[p] = "await"
    /\ err[p] = ""
    /\ i \in DOMAIN req[p]
    /\ req[p][i].state = "pending"
    /\ IF outcome = "ok"
       THEN /\ req' = [req EXCEPT ![p][i] =
                        [name |-> req[p][i].name, state |-> "ok",
                         css |-> generateOpenPropsCSS(req[p][i].name,
                                    ServedText(req[p][i].name),
                                    cfg[p].prefixes.primitives, getHue(opt[p].seed), now)]]
            /\ err' = err
       ELSE /\ req' = [req EXCEPT ![p][i].state = "rejected"]
            /\ err' = [err EXCEPT ![p] = FetchError(req[p][i].name, outcome)]
    /\ UNCHANGED <<fs, dirs, pc, opt, cfg, theme, widx, appExists, netlog, out, now>>

\* await Promise.all rejects: generateTokens throws
AwaitRejected(p) ==
    /\ pc[p] = "await"
    /\ err[p] # ""
    /\ pc' = [pc EXCEPT ![p] = "failed"]
    /\ UNCHANGED <<fs, dirs, opt, cfg, theme, widx, appExists, req, netlog, err, out, now>>

\* await Promise.all resolves, lines 182-188
AwaitResolved(p) ==
    /\ pc[p] = "await"
    /\ \A i \in DOMAIN req[p] : req[p][i].state = "ok"
    /\ pc' = [pc EXCEPT ![p] = "openprops"]
    /\ UNCHANGED <<fs, dirs, opt, cfg, theme, widx, appExists, req, netlog, err, out, now>>

\* the entries of the results Map: a name keeps the place of its first
\* set and the value of its last
MapEntries(fetched) ==
    LET firsts == {i \in DOMAIN fetched : \A j \in 1..(i - 1) : fetched[j].name # fetched[i].name}
        Last(name) == CHOOSE i \in DOMAIN fetched :
                        /\ fetched[i].name = name
                        /\ \A j \in (i + 1)..Len(fetched) : fetched[j].name # name
        RECURSIVE Entries(_)
        Entries(i) ==
            IF i > Len(fetched) THEN <<>>
            ELSE (IF i \in firsts
                  THEN <<[name |-> fetched[i].name, css |-> fetched[Last(fetched[i].name)].css]>>
                  ELSE <<>>) \o Entries(i + 1)
    IN  Entries(1)

\* lines 236-239, one turn of the loop
WriteOpenProps(p) ==
    LET entries == MapEntries(req[p])
    IN  /\ pc[p] = "openprops"
        /\ IF widx[p] < Len(entries)
           THEN /\ Written(p, openPropsPath(cfg[p], entries[widx[p] + 1].name),
                           entries[widx[p] + 1].css)
                /\ widx' = [widx EXCEPT ![p] = widx[p] + 1]
                /\ pc' = pc
           ELSE /\ pc' = [pc EXCEPT ![p] = "semantic"]
                /\ UNCHANGED <<fs, out, widx>>
        /\ UNCHANGED <<dirs, opt, cfg, theme, appExists, req, netlog, err, now>>

\* lines 241-252
WriteSemantic(p) ==
    /\ pc[p] = "semantic"
    /\ Written(p, semanticPath(cfg[p]),
               generateSemanticCSS(theme[p].schemes["light"], theme[p].schemes["dark"],
                                   cfg[p].semantic, cfg[p].prefixes, cfg[p].format,
                                   getHue(opt[p].seed), now))
    /\ pc' = [pc EXCEPT ![p] = "index"]
    /\ UNCHANGED <<dirs, opt, cfg, theme, widx, appExists, req, netlog, err, now>>

\* lines 254-263
WriteIndex(p) ==
    /\ pc[p] = "index"
    /\ Written(p, indexPath(cfg[p]),
               generateIndexCSS(cfg[p].openprops.files, cfg[p].prefixes,
                                cfg[p].output.paletteSubdir, cfg[p].output.openpropsSubdir, now))
    /\ pc' = [pc EXCEPT ![p] = "stat"]
    /\ UNCHANGED <<dirs, opt, cfg, theme, widx, appExists, req, netlog, err, now>>

\* fileExists(appPath), lines 266-267 and 284-291
fileExists(path) == path \in DOMAIN fs

\* a mutant of StatApp: the check never finds the file
StatAppBlind(p) ==
    /\ pc[p] = "stat"
    /\ appExists' = [appExists EXCEPT ![p] = "absent"]
    /\ pc' = [pc EXCEPT ![p] = "app"]
    /\ UNCHANGED <<fs, dirs, opt, cfg, theme, widx, req, netlog, err, out, now>>

StatApp(p) ==
    /\ pc[p] = "stat"
    /\ appExists' = [appExists EXCEPT ![p] =
                        IF fileExists(appPath(cfg[p])) THEN "present" ELSE "absent"]
    /\ pc' = [pc EXCEPT ![p] = "app"]
    /\ UNCHANGED <<fs, dirs, opt, cfg, theme, widx, req, netlog, err, out, now>>

\* a mutant of WriteApp: the scaffold is written whatever the check found
WriteAppAlways(p) ==
    /\ pc[p] = "app"
    /\ Written(p, appPath(cfg[p]), generateAppCSS)
    /\ pc' = [pc EXCEPT ![p] = "done"]
    /\ UNCHANGED <<dirs, opt, cfg, theme, widx, appExists, req, netlog, err, now>>

\* lines 269-278
WriteApp(p) ==
    /\ pc[p] = "app"
    /\ IF appExists[p] = "absent"
       THEN Written(p, appPath(cfg[p]), generateAppCSS)
       ELSE UNCHANGED <<fs, out>>
    /\ pc' = [pc EXCEPT ![p] = "done"]
    /\ UNCHANGED <<dirs, opt, cfg, theme, widx, appExists, req, netlog, err, now>>

\* the consumer of the tokens edits or removes app.css
ConsumerTexts == {":root { --sidebar-width: 300px; }\n", ":root { --brand: var(--ui-color-primary); }\n"}

ConsumerEdit(text) ==
    /\ fs' = WriteFile(fs, appPath(DEFAULT_CONFIG), text)
    /\ UNCHANGED <<dirs, pc, opt, cfg, theme, widx, appExists, req, netlog, err, out, now>>

ConsumerRemove ==
    /\ appPath(DEFAULT_CONFIG) \in DOMAIN fs
    /\ fs' = [q \in DOMAIN fs \ {appPath(DEFAULT_CONFIG)} |-> fs[q]]
    /\ UNCHANGED <<dirs, pc, opt, cfg, theme, widx, appExists, req, netlog, err, out, now>>

\* the wall clock advances
Tick ==
    /\ now < MaxTime
    /\ now' = now + 1
    /\ UNCHANGED <<fs, dirs, pc, opt, cfg, theme, widx, appExists, req, netlog, err, out>>

ParkedConfig ==
    /\ userConfig = NoProps /\ callOpt = NoProps
    /\ resolved = DEFAULT_CONFIG /\ cfgPc = "parked"

-----------------------------------------------------------------------------
(* generator.ts on its own: generateTheme for a seed and a variant         *)

HexDigits == Digits \cup {"a", "b", "c", "d", "e", "f", "A", "B", "C", "D", "E", "F"}

\* /^#?([A-Fa-f0-9]{6}|[A-Fa-f0-9]{3})$/
HexPattern ==
    <<Bol, Opt({"#"}),
      Alt(<< <<Class(HexDigits, FALSE, 6, 6)>>, <<Class(HexDigits, FALSE, 3, 3)>> >>)>>

\* hexPattern.test(hex): a match that ends where the text ends
isValidHexColor(hex) ==
    \E a \in DOMAIN HexPattern[3].v :
        LET m == MatchAt(<<HexPattern[1], HexPattern[2]>> \o HexPattern[3].v[a], hex, 1)
        IN  m.ok /\ m.to = Len(hex) + 1

\* spellings a caller may pass as the seed
SeedSpellings ==
    {"769cdf", "#769cdf", "#769CDF", "769CDF", "#769cDf", "#E8175D", "e8175d",
     "abc", "#abc", "#ABC", "#AbC", "#12", "#GGGGGG", "769cdf0", "", "#"}

\* the seeds the validation in front of generateTheme lets through
AcceptedSeeds == {s \in SeedSpellings : isValidHexColor(s)}

NoJson == [t |-> "none"]

ParkedTheme ==
    /\ thSeed = "" /\ thVariant = "" /\ thTheme = NoTheme
    /\ thJson = "" /\ thParsed = NoJson /\ thDropped = {} /\ thPc = "parked"

InitTheme ==
    /\ thSeed \in AcceptedSeeds
    /\ thVariant \in SCHEME_VARIANTS
    /\ thTheme = NoTheme
    /\ thJson = "" /\ thParsed = NoJson /\ thDropped = {} /\ thPc = "input"

\* generateTheme(thSeed, thVariant)
GenerateTheme ==
    /\ thPc = "input"
    /\ thTheme' = generateTheme(thSeed, thVariant, now)
    /\ thPc' = "generated"
    /\ UNCHANGED <<thSeed, thVariant, thJson, thParsed, thDropped>>

-----------------------------------------------------------------------------
(* formatter.ts: the theme document.  A JavaScript value is written as a   *)
(* string, an array or an object whose members keep their insertion order  *)

Str(s) == [t |-> "str", v |-> s]
Arr(items) == [t |-> "arr", v |-> items]
Obj(members) == [t |-> "obj", v |-> members]
Member(key, value) == [k |-> key, v |-> value]

\* the keys of the scheme set and of the palette set, in the order
\* generateSchemes and generatePalettes write them
SCHEME_KEYS ==
    <<"light", "light-medium-contrast", "light-high-contrast",
      "dark", "dark-medium-contrast", "dark-high-contrast">>

PALETTE_KEYS == <<"primary", "secondary", "tertiary", "neutral", "neutral-variant">>

\* the object generateTheme returns, property by property
ThemeValue(th) ==
    Obj(<< Member("description", Str(th.description)),
           Member("seed", Str(th.seed)),
           Member("coreColors", Obj(<<Member("primary", Str(th.coreColors.primary))>>)),
           Member("extendedColors", Arr(<<>>)),
           Member("schemes",
                Obj([i \in DOMAIN SCHEME_KEYS |->
                    Member(SCHEME_KEYS[i],
                        Obj([j \in DOMAIN SCHEME_ROLES |->
                            Member(SCHEME_ROLES[j],
                                   Str(th.schemes[SCHEME_KEYS[i]][SCHEME_ROLES[j]]))]))])),
           Member("palettes",
                Obj([i \in DOMAIN PALETTE_KEYS |->
                    Member(PALETTE_KEYS[i],
                        Obj([j \in DOMAIN TONE_VALUES |->
                            Member(ToString(TONE_VALUES[j]),
                                   Str(th.palettes[PALETTE_KEYS[i]][ToString(TONE_VALUES[j])]))]))])) >>)

\* the value as a plain theme: objects by key, whatever the member order
RECURSIVE Plain(_)
Plain(value) ==
    CASE value.t = "str" -> value.v
      [] value.t = "arr" -> [i \in DOMAIN value.v |-> Plain(value.v[i])]
      [] value.t = "obj" ->
            [key \in {value.v[i].k : i \in DOMAIN value.v} |->
                Plain(value.v[CHOOSE i \in DOMAIN value.v :
                        /\ value.v[i].k = key
                        /\ \A j \in DOMAIN value.v : value.v[j].k = key => j <= i].v)]

\* the quoted form of a string: JSON.stringify escapes the quote, the
\* backslash and the control characters
QuoteChar(c) ==
    CASE c = "\"" -> "\\\""
      [] c = "\\" -> "\\\\"
      [] c = "\n" -> "\\n"
      [] c = "\t" -> "\\t"
      [] c = "\r" -> "\\r"
      [] OTHER -> c

Quote(s) == "\"" \o Join([i \in 1..Len(s) |-> QuoteChar(Ch(s, i))], "") \o "\""

Spaces(n) == Join([i \in 1..n |-> " "], "")

\* JSON.stringify(value, null, 4) at a nesting depth
RECURSIVE Stringify(_, _)
Stringify(value, depth) ==
    LET inner == Spaces(4 * (depth + 1))
        outer == Spaces(4 * depth)
    IN  CASE value.t = "str" -> Quote(value.v)
          [] value.t = "arr" ->
                IF value.v = <<>> THEN "[]"
                ELSE "[\n"
                     \o Join([i \in DOMAIN value.v |->
                                inner \o Stringify(value.v[i], depth + 1)], ",\n")
                     \o "\n" \o outer \o "]"
          [] value.t = "obj" ->
                IF value.v = <<>> THEN "{}"
                ELSE "{\n"
                     \o Join([i \in DOMAIN value.v |->
                                inner \o Quote(value.v[i].k) \o ": "
                                      \o Stringify(value.v[i].v, depth + 1)], ",\n")
                     \o "\n" \o outer \o "}"

\* formatThemeJson, line 16
formatThemeJson(value) == Stringify(value, 0)

\* JSON.parse.  Every step returns the value read and the position after it
ParseFailed == [ok |-> FALSE, v |-> Str(""), next |-> 0]
Parsed(value, next) == [ok |-> TRUE, v |-> value, next |-> next]

SkipWs(s, i) == i + RunLength(Star(WhiteSpace), s, i)

Unescape(c) ==
    CASE c = "n" -> "\n"
      [] c = "t" -> "\t"
      [] c = "r" -> "\r"
      [] OTHER -> c

\* the characters of a string from i up to the closing quote
RECURSIVE ParseChars(_, _)
ParseChars(s, i) ==
    LET n == RunLength(Class({"\"", "\\"}, TRUE, 0, 0), s, i)
        plain == SubSeq(s, i, i + n - 1)
        stop == Ch(s, i + n)
    IN  IF stop = "\"" THEN Parsed(plain, i + n + 1)
        ELSE IF stop = "\\" /\ i + n + 1 <= Len(s)
        THEN LET rest == ParseChars(s, i + n + 2)
             IN  IF rest.ok THEN Parsed(plain \o Unescape(Ch(s, i + n + 1)) \o rest.v, rest.next)
                 ELSE ParseFailed
        ELSE ParseFailed

RECURSIVE ParseValue(_, _)
RECURSIVE ParseItems(_, _, _)
RECURSIVE ParseMembers(_, _, _)

\* the items of an array after '[' or ',', up to ']'
ParseItems(s, i, acc) ==
    LET item == ParseValue(s, i)
        j == SkipWs(s, item.next)
    IN  IF ~item.ok THEN ParseFailed
        ELSE IF Ch(s, j) = "," THEN ParseItems(s, j + 1, Append(acc, item.v))
        ELSE IF Ch(s, j) = "]" THEN Parsed(Arr(Append(acc, item.v)), j + 1)
        ELSE ParseFailed

\* the members of an object after '{' or ',', up to '}'
ParseMembers(s, i, acc) ==
    LET k == SkipWs(s, i)
        key == IF Ch(s, k) = "\"" THEN ParseChars(s, k + 1) ELSE ParseFailed
        colon == SkipWs(s, key.next)
        value == IF key.ok /\ Ch(s, colon) = ":" THEN ParseValue(s, colon + 1) ELSE ParseFailed
        j == SkipWs(s, value.next)
    IN  IF ~value.ok THEN ParseFailed
        ELSE IF Ch(s, j) = "," THEN ParseMembers(s, j + 1, Append(acc, Member(key.v, value.v)))
        ELSE IF Ch(s, j) = "}" THEN Parsed(Obj(Append(acc, Member(key.v, value.v))), j + 1)
        ELSE ParseFailed

ParseValue(s, i) ==
    LET k == SkipWs(s, i)
        c == Ch(s, k)
    IN  CASE c = "\"" ->
                LET str == ParseChars(s, k + 1)
                IN  IF str.ok THEN Parsed(Str(str.v), str.next) ELSE ParseFailed
          [] c = "[" ->
                IF Ch(s, SkipWs(s, k + 1)) = "]" THEN Parsed(Arr(<<>>), SkipWs(s, k + 1) + 1)
                ELSE ParseItems(s, k + 1, <<>>)
          [] c = "{" ->
                IF Ch(s, SkipWs(s, k + 1)) = "}" THEN Parsed(Obj(<<>>), SkipWs(s, k + 1) + 1)
                ELSE ParseMembers(s, k + 1, <<>>)
          [] OTHER -> ParseFailed

\* JSON.parse(json): one value, and nothing but white space after it
JsonParse(json) ==
    LET read == ParseValue(json, 1)
    IN  IF read.ok /\ SkipWs(json, read.next) = Len(json) + 1 THEN read ELSE ParseFailed

\* parsed.<key> is missing, or a value that !parsed.<key> takes for false
Falsy(value, key) ==
    \/ value.t # "obj"
    \/ \A i \in DOMAIN value.v : value.v[i].k # key
    \/ \E i \in DOMAIN value.v :
            /\ value.v[i].k = key
            /\ \A j \in DOMAIN value.v : value.v[j].k = key => j <= i
            /\ value.v[i].v = Str("")

SyntaxError == [ok |-> FALSE, error |-> "SyntaxError"]
MissingFields == [ok |-> FALSE, error |-> "Invalid theme JSON: missing required fields"]

\* a mutant of parseThemeJson: the palettes are not looked for
parseThemeJsonNoPalettes(json) ==
    LET read == JsonParse(json)
    IN  IF ~read.ok THEN SyntaxError
        ELSE IF Falsy(read.v, "seed") \/ Falsy(read.v, "schemes") THEN MissingFields
        ELSE [ok |-> TRUE, value |-> read.v]

\* parseThemeJson, lines 26-35
parseThemeJson(json) ==
    LET read == JsonParse(json)
    IN  IF ~read.ok THEN SyntaxError
        ELSE IF Falsy(read.v, "seed") \/ Falsy(read.v, "schemes") \/ Falsy(read.v, "palettes")
        THEN MissingFields
        ELSE [ok |-> TRUE, value |-> read.v]

\* the top-level keys a document may have lost on its way to the parser
DroppableKeys == {"seed", "schemes", "palettes", "extendedColors"}

Without(value, keys) == Obj(SelectSeq(value.v, LAMBDA m : m.k \notin keys))

\* formatThemeJson(thTheme)
FormatTheme ==
    /\ thPc = "generated"
    /\ thJson' = formatThemeJson(ThemeValue(thTheme))
    /\ thPc' = "formatted"
    /\ UNCHANGED <<thSeed, thVariant, thTheme, thParsed, thDropped>>

\* a document of the same schema with top-level keys absent
DropKeys(keys) ==
    /\ thPc = "formatted"
    /\ keys # {}
    /\ thJson' = formatThemeJson(Without(ThemeValue(thTheme), keys))
    /\ thDropped' = keys
    /\ thPc' = "edited"
    /\ UNCHANGED <<thSeed, thVariant, thTheme, thParsed>>

\* parseThemeJson(thJson)
ParseTheme ==
    /\ thPc \in {"formatted", "edited"}
    /\ thParsed' = parseThemeJson(thJson)
    /\ thPc' = "parsed"
    /\ UNCHANGED <<thSeed, thVariant, thTheme, thJson, thDropped>>

-----------------------------------------------------------------------------
(* The renderers on their own: generateSemanticCSS, generateIndexCSS and   *)
(* formatColor, each called once with arguments of its parameter types     *)

\* ColorFormat, and strings that are no ColorFormat
COLOR_FORMATS == {"oklch", "hex", "hsl", "rgb"}
OtherFormats == {"lab", "HEX"}

\* a scheme with some of its roles absent
Lacking(scheme, roles) == [r \in (DOMAIN scheme) \ roles |-> scheme[r]]

\* the roles the light and the dark scheme of a call may lack
LightGaps == SUBSET {"primary", "background", "onBackground"}
DarkGaps == SUBSET {"onPrimary", "onBackground", "surfaceTint"}

RenderSchemes == generateSchemes("769CDF", "tonal-spot")

SemanticJobs ==
    { [kind |-> "semantic",
       light |-> Lacking(RenderSchemes["light"], lg),
       dark |-> Lacking(RenderSchemes["dark"], dg),
       semantic |-> [radius |-> <<<<"md", "radius-2">>, <<"none", "0">>>>],
       prefixes |-> Spread(DEFAULT_CONFIG.prefixes, [semantic |-> sp]),
       format |-> f] :
      lg \in LightGaps, dg \in DarkGaps, f \in COLOR_FORMATS, sp \in {"ui"} }

\* the short names a category may be configured with, with their values
KeyPool == {"md", "none", "alert", "Button"}

KeyValue(key) ==
    CASE key = "md" -> "radius-2"
      [] key = "none" -> "0"
      [] key = "alert" -> "-1"
      [] key = "Button" -> "150ms"

\* the keys of a category in every configured order
KeyOrders ==
    { ks \in UNION {[1..n -> KeyPool] : n \in 0..Cardinality(KeyPool)} :
        \A i, j \in DOMAIN ks : i # j => ks[i] # ks[j] }

\* calls that differ in the tokens of the radius category; the space
\* category is the same in all
OrderJobs ==
    { [kind |-> "semantic",
       light |-> RenderSchemes["light"],
       dark |-> RenderSchemes["dark"],
       semantic |-> [space |-> <<<<"gap", ".5rem">>, <<"xs", "size-1">>, <<"2xl", "none-1">>,
                                 <<"0", "00">>, <<"off", "none">>>>,
                     radius |-> [i \in DOMAIN ks |-> <<ks[i], KeyValue(ks[i])>>]],
       prefixes |-> Spread(DEFAULT_CONFIG.prefixes, [primitives |-> pp]),
       format |-> "oklch"] :
      ks \in KeyOrders, pp \in {"op", "prim"} }

IndexJobs ==
    { [kind |-> "index", files |-> fl, prefixes |-> DEFAULT_CONFIG.prefixes,
       paletteSubdir |-> "material", openpropsSubdir |-> "open-props"] :
      fl \in { <<>>, <<"sizes">>, <<"sizes", "fonts">>, <<"shadows", "fonts", "sizes">>,
               <<"semantic">>, <<"fonts", "app", "borders">>, <<"sizes", "sizes">> } }

ColorJobs ==
    { [kind |-> "color", hex |-> h, format |-> f] :
      h \in {"#769CDF", "#e8175d"}, f \in COLOR_FORMATS \cup OtherFormats }

\* the five palettes of a theme and an error palette beside them
RenderPalettes ==
    generatePalettes("769CDF", "tonal-spot")
    @@ ("error" :> extractTonalPalette(SchemePalette(
            createScheme("769CDF", FALSE, CONTRAST_LEVELS.standard, "tonal-spot"), "error")))

\* the palettes a call may lack, and the steps its palettes may lack
PaletteGaps == SUBSET {"primary", "error", "neutral-variant"}
StepGaps == SUBSET {"0", "50", "100"}

PaletteJobs ==
    { [kind |-> "palettes",
       palettes |-> [n \in (DOMAIN RenderPalettes) \ pg |->
                        IF n \in {"secondary", "neutral-variant"}
                        THEN Lacking(RenderPalettes[n], sg) ELSE RenderPalettes[n]],
       seed |-> "#769CDF",
       prefixes |-> DEFAULT_CONFIG.prefixes,
       format |-> f] :
      pg \in PaletteGaps, sg \in StepGaps, f \in {"oklch", "hex"} }

ParkedRender == job = [kind |-> "none"] /\ rendered = "" /\ jobPc = "parked"

InitRender ==
    /\ job \in SemanticJobs \cup OrderJobs \cup IndexJobs \cup ColorJobs \cup PaletteJobs
    /\ rendered = ""
    /\ jobPc = "input"

\* generateSemanticCSS(light, dark, semantic, prefixes, format, seedHue)
RenderSemantic ==
    /\ jobPc = "input" /\ job.kind = "semantic"
    /\ rendered' = generateSemanticCSS(job.light, job.dark, job.semantic, job.prefixes,
                                       job.format, getHue("#769CDF"), now)
    /\ jobPc' = "done"
    /\ UNCHANGED job

\* generateIndexCSS(files, prefixes, paletteSubdir, openpropsSubdir)
RenderIndex ==
    /\ jobPc = "input" /\ job.kind = "index"
    /\ rendered' = generateIndexCSS(job.files, job.prefixes, job.paletteSubdir,
                                    job.openpropsSubdir, now)
    /\ jobPc' = "done"
    /\ UNCHANGED job

\* generatePalettesCSS(palettes, seed, prefixes, format)
RenderPalettesCSS ==
    /\ jobPc = "input" /\ job.kind = "palettes"
    /\ rendered' = generatePalettesCSS(job.palettes, job.seed, job.prefixes, job.format, now)
    /\ jobPc' = "done"
    /\ UNCHANGED job

\* formatColor(hex, format): every branch of the switch returns
FormatColor ==
    /\ jobPc = "input" /\ job.kind = "color"
    /\ rendered' = formatColor(job.hex, job.format)
    /\ jobPc' = "done"
    /\ UNCHANGED job

-----------------------------------------------------------------------------
(* openprops.ts: fetchOpenProps with its abort timer, inside one           *)
(* fetchAllOpenProps call.  Time is counted in units of ten seconds        *)

\* setTimeout(() => controller.abort(), 30000): 30000 ms in units of 10 s
FetchTimeout == 3

\* the last instant the clock of the call is followed to
MaxElapsed == 4

FetchLists == { <<"sizes">>, <<"sizes", "shadows">>, <<"sizes", "nonexistent">> }

Fetch(name, state, cause) ==
    [name |-> name, state |-> state, cause |-> cause, aborted |-> FALSE]

ParkedFetch ==
    /\ fetches = <<>> /\ timers = <<>> /\ elapsed = 0
    /\ allResult = [state |-> "parked", error |-> ""]

InitFetch ==
    /\ fetches \in {[i \in DOMAIN fl |-> Fetch(fl[i], "unstarted", "")] : fl \in FetchLists}
    /\ timers = [i \in DOMAIN fetches |-> "none"]
    /\ elapsed = 0
    /\ allResult = [state |-> "idle", error |-> ""]

Settled(f) == f.state \in {"resolved", "rejected"}

\* fileNames.map(...): every callback runs fetchOpenProps up to its first
\* await: an unknown name throws, a known one arms the timer and requests
StartFetches ==
    /\ allResult.state = "idle"
    /\ fetches' = [i \in DOMAIN fetches |->
                    IF fetches[i].name \in DOMAIN OPENPROPS_SOURCE_FILES
                    THEN Fetch(fetches[i].name, "requested", "")
                    ELSE Fetch(fetches[i].name, "rejected", "unknown")]
    /\ timers' = [i \in DOMAIN fetches |->
                    IF fetches[i].name \in DOMAIN OPENPROPS_SOURCE_FILES THEN "armed" ELSE "none"]
    /\ allResult' = [state |-> "pending", error |-> ""]
    /\ UNCHANGED elapsed

\* clearTimeout(timeout): a timer that has fired stays fired
Cleared(timer) == IF timer = "armed" THEN "cleared" ELSE timer

\* a mutant of Respond: without the finally block, the timer is cleared
\* only on the way that reads the body
RespondNoFinally(i, ok) ==
    /\ fetches[i].state = "requested" /\ ~fetches[i].aborted
    /\ IF ok
       THEN /\ fetches' = [fetches EXCEPT ![i].state = "reading"]
            /\ UNCHANGED timers
       ELSE /\ fetches' = [fetches EXCEPT ![i].state = "rejected", ![i].cause = "status"]
            /\ UNCHANGED timers
    /\ UNCHANGED <<elapsed, allResult>>

\* await fetch(url) resolves: response.ok goes on to read the body, another
\* status throws, and the finally block clears the timer
Respond(i, ok) ==
    /\ fetches[i].state = "requested" /\ ~fetches[i].aborted
    /\ IF ok
       THEN /\ fetches' = [fetches EXCEPT ![i].state = "reading"]
            /\ UNCHANGED timers
       ELSE /\ fetches' = [fetches EXCEPT ![i].state = "rejected", ![i].cause = "status"]
            /\ timers' = [timers EXCEPT ![i] = Cleared(timers[i])]
    /\ UNCHANGED <<elapsed, allResult>>

\* the request or the reading of the body fails on the network
NetworkError(i) ==
    /\ fetches[i].state \in {"requested", "reading"} /\ ~fetches[i].aborted
    /\ fetches' = [fetches EXCEPT ![i].state = "rejected", ![i].cause = "network"]
    /\ timers' = [timers EXCEPT ![i] = Cleared(timers[i])]
    /\ UNCHANGED <<elapsed, allResult>>

\* await response.text() resolves
BodyRead(i) ==
    /\ fetches[i].state = "reading" /\ ~fetches[i].aborted
    /\ fetches' = [fetches EXCEPT ![i].state = "resolved"]
    /\ timers' = [timers EXCEPT ![i] = Cleared(timers[i])]
    /\ UNCHANGED <<elapsed, allResult>>

\* the timer is due: controller.abort()
TimerFires(i) ==
    /\ timers[i] = "armed" /\ elapsed >= FetchTimeout
    /\ timers' = [timers EXCEPT ![i] = "fired"]
    /\ fetches' = [fetches EXCEPT ![i].aborted = TRUE]
    /\ UNCHANGED <<elapsed, allResult>>

\* the aborted request or body read rejects
AbortRejects(i) ==
    /\ fetches[i].aborted /\ fetches[i].state \in {"requested", "reading"}
    /\ fetches' = [fetches EXCEPT ![i].state = "rejected", ![i].cause = "abort"]
    /\ timers' = [timers EXCEPT ![i] = Cleared(timers[i])]
    /\ UNCHANGED <<elapsed, allResult>>

\* ten seconds pass; a timer that is due fires before more time passes
Pass ==
    /\ elapsed < MaxElapsed
    /\ \A i \in DOMAIN timers : ~(timers[i] = "armed" /\ elapsed >= FetchTimeout)
    /\ allResult.state # "idle"
    /\ elapsed' = elapsed + 1
    /\ UNCHANGED <<fetches, timers, allResult>>

\* await Promise.all(fetchPromises): rejected with the error of a rejected
\* fetch, resolved when every fetch has resolved
PromiseAll ==
    /\ allResult.state = "pending"
    /\ \/ \E i \in DOMAIN fetches :
            /\ fetches[i].state = "rejected"
            /\ allResult' = [state |-> "rejected", error |-> fetches[i].cause]
       \/ /\ \A i \in DOMAIN fetches : fetches[i].state = "resolved"
          /\ allResult' = [state |-> "resolved", error |-> ""]
    /\ UNCHANGED <<fetches, timers, elapsed>>

-----------------------------------------------------------------------------
(* color-scheme-viewer.ts: the configurator component                      *)

\* theme-generator: /^#?([A-Fa-f0-9]{6}|[A-Fa-f0-9]{3})$/.test(hex)
isValidHex(hex) ==
    \E a \in DOMAIN HexPattern[3].v :
        LET m == MatchAt(<<HexPattern[1], HexPattern[2]>> \o HexPattern[3].v[a], hex, 1)
        IN  m.ok /\ m.to = Len(hex) + 1

\* theme-generator generateScheme: the scheme the engine builds from the
\* colour of the seed, known here by the parameters it was built from
generateScheme(seedHex, variant, isDark, contrastLevel) ==
    createScheme(argbFromHex(IF StartsAt(seedHex, 1, "#") THEN seedHex ELSE "#" \o seedHex),
                 isDark, contrastLevel, variant)

\* theme-generator generateTonalPalettes: the palettes of the light scheme
\* at standard contrast
generateTonalPalettes(seedHex, variant) ==
    [palettesOf |-> generateScheme(seedHex, variant, FALSE, CONTRAST_LEVELS.standard)]

\* theme-generator generateVariantPreviews(seedHex, isDark): one preview
\* per variant
generateVariantPreviews(seedHex, isDark) ==
    [v \in SCHEME_VARIANTS |-> generateScheme(seedHex, v, isDark, CONTRAST_LEVELS.standard)]

\* the colours of the engine this model knows, with their hue, chroma and
\* tone; the engine's arithmetic is not modelled
HctTable ==
    { [argb |-> "769CDF", hue |-> 265, chroma |-> 46, tone |-> 63],
      [argb |-> "D0826F", hue |-> 27, chroma |-> 46, tone |-> 63],
      [argb |-> "FF0000", hue |-> 27, chroma |-> 113, tone |-> 53],
      [argb |-> "E8503A", hue |-> 27, chroma |-> 90, tone |-> 53],
      [argb |-> "5F7CFF", hue |-> 265, chroma |-> 90, tone |-> 53] }

\* hexToHCT
hexToHCT(hex) ==
    CHOOSE c \in HctTable :
        c.argb = argbFromHex(IF StartsAt(hex, 1, "#") THEN hex ELSE "#" \o hex)

\* hctToHex: Hct.from keeps hue and tone and lowers a chroma that is out of
\* gamut to the greatest one the hue and tone allow
hctToHex(hue, chroma, tone) ==
    LET inGamut == {c \in HctTable : c.hue = hue /\ c.tone = tone /\ c.chroma <= chroma}
        best == CHOOSE c \in inGamut : \A d \in inGamut : d.chroma <= c.chroma
    IN  "#" \o best.argb

Null == [isNull |-> TRUE]

\* the field initialisers, lines 52-74
ViewDefaults ==
    [seed |-> "#769CDF", variant |-> "tonal-spot", contrastLevel |-> CONTRAST_LEVELS.standard,
     themePreference |-> "light", lightColors |-> Null, darkColors |-> Null,
     hexInput |-> "#769CDF", variantPreviews |-> Null,
     palettes |-> Null, palettesCacheKey |-> "",
     hue |-> 0, chroma |-> 0, tone |-> 0, tokens |-> Null]

\* what the user types into the hex field
HexTexts == {"#769CDF", "ff0000", "#F00", "#76"}

\* where the user drags the hue slider
SliderHues == {27, 265}

\* the variant cards and the contrast buttons the user clicks
ViewerVariants == {"tonal-spot", "vibrant"}
ViewerContrasts == {CONTRAST_LEVELS.standard, CONTRAST_LEVELS.high}

\* _applyTokens, lines 930-972: the scheme whose colours are set on the host
AppliedTokens(v) == IF v.themePreference = "dark" THEN v.darkColors ELSE v.lightColors

\* _regenerate, lines 854-884
Regenerate(v) ==
    IF ~isValidHex(v.hexInput) THEN v
    ELSE LET hex == normalizedSeed(v.hexInput)
             paletteCacheKey == hex \o "|" \o v.variant
             hct == hexToHCT(hex)
             made == [v EXCEPT
                        !.lightColors = generateScheme(hex, v.variant, FALSE, v.contrastLevel),
                        !.darkColors = generateScheme(hex, v.variant, TRUE, v.contrastLevel),
                        !.variantPreviews =
                            generateVariantPreviews(hex, v.themePreference = "dark"),
                        !.palettes = IF v.palettesCacheKey # paletteCacheKey
                                     THEN generateTonalPalettes(hex, v.variant) ELSE @,
                        !.palettesCacheKey = paletteCacheKey,
                        !.hue = hct.hue, !.chroma = hct.chroma, !.tone = hct.tone]
         IN  [made EXCEPT !.tokens = AppliedTokens(made)]

\* connectedCallback, lines 835-841; the first update reports seed as changed
Connect(dark) ==
    /\ viewPc = "constructed"
    /\ view' = Regenerate([view EXCEPT !.hexInput = view.seed,
                                       !.themePreference = IF dark THEN "dark" ELSE "light"])
    /\ changed' = TRUE
    /\ viewPc' = "connected"
    /\ UNCHANGED debounceTimer

\* updated(changed) with changed.has("seed"), lines 843-848: it runs in the
\* microtask after the handler that assigned seed, before any other event
Updated ==
    /\ viewPc = "connected"
    /\ changed
    /\ view' = Regenerate([view EXCEPT !.hexInput = view.seed])
    /\ changed' = FALSE
    /\ UNCHANGED <<debounceTimer, viewPc>>

\* _onHexInput, lines 890-899; assigning seed requests an update when the
\* value differs
OnHexInput(raw) ==
    /\ viewPc = "connected"
    /\ ~changed
    /\ IF isValidHex(raw)
       THEN /\ view' = [view EXCEPT !.hexInput = raw, !.seed = normalizedSeed(raw)]
            /\ changed' = (normalizedSeed(raw) # view.seed)
            /\ debounceTimer' = "pending"
       ELSE /\ view' = [view EXCEPT !.hexInput = raw]
            /\ UNCHANGED <<changed, debounceTimer>>
    /\ UNCHANGED viewPc

\* _onHexBlur, lines 901-908
OnHexBlur ==
    /\ viewPc = "connected"
    /\ ~changed
    /\ view' = IF isValidHex(view.hexInput)
               THEN [view EXCEPT !.hexInput = normalizedSeed(view.hexInput)]
               ELSE view
    /\ UNCHANGED <<debounceTimer, changed, viewPc>>

\* _onHueInput, lines 910-918
OnHueInput(hue) ==
    LET newHex == hctToHex(hue, view.chroma, view.tone)
    IN  /\ viewPc = "connected"
        /\ ~changed
        /\ view' = [view EXCEPT !.hue = hue, !.hexInput = newHex, !.seed = newHex]
        /\ changed' = (newHex # view.seed)
        /\ debounceTimer' = "pending"
        /\ UNCHANGED viewPc

\* the timer of debounce fires, lines 34-40: _regenerate
DebounceFires ==
    /\ viewPc = "connected"
    /\ ~changed
    /\ debounceTimer = "pending"
    /\ view' = Regenerate(view)
    /\ debounceTimer' = "none"
    /\ UNCHANGED <<changed, viewPc>>

\* _selectVariant, lines 992-995
SelectVariant(v) ==
    /\ viewPc = "connected"
    /\ ~changed
    /\ view' = Regenerate([view EXCEPT !.variant = v])
    /\ UNCHANGED <<debounceTimer, changed, viewPc>>

\* _selectContrast, lines 1010-1013
SelectContrast(level) ==
    /\ viewPc = "connected"
    /\ ~changed
    /\ view' = Regenerate([view EXCEPT !.contrastLevel = level])
    /\ UNCHANGED <<debounceTimer, changed, viewPc>>

\* _cycleTheme, lines 997-1008
CycleTheme ==
    LET turned == [view EXCEPT !.themePreference = IF @ = "light" THEN "dark" ELSE "light"]
        applied == [turned EXCEPT !.tokens = AppliedTokens(turned)]
    IN  /\ viewPc = "connected"
        /\ ~changed
        /\ view' = IF isValidHex(view.hexInput)
                   THEN [applied EXCEPT !.variantPreviews =
                            generateVariantPreviews(normalizedSeed(view.hexInput),
                                                    applied.themePreference = "dark")]
                   ELSE applied
        /\ UNCHANGED <<debounceTimer, changed, viewPc>>

ParkedViewer ==
    /\ view = ViewDefaults /\ debounceTimer = "none" /\ changed = FALSE /\ viewPc = "parked"

InitViewer ==
    /\ view = ViewDefaults /\ debounceTimer = "none" /\ changed = FALSE
    /\ viewPc = "constructed"

ParkedSide == ParkedTheme /\ ParkedRender /\ ParkedFetch

-----------------------------------------------------------------------------
(* The specifications                                                      *)

\* sequential runs on one output directory: a run starts when no other is
\* in progress; between runs the consumer edits or removes app.css; a
\* started fetch ends in any of the four ways.  The clock stands still.
FileLists ==
    { <<"sizes">>, <<"fonts", "shadows">>, <<"sizes", "nonexistent">>, <<"nonexistent", "fonts">>,
      <<"fonts", "nonexistent", "sizes">> }

IoOptions == {[seed |-> "#769CDF", config |-> [openprops |-> [files |-> f]]] : f \in FileLists}

\* the run slots are used in order
InOrder(p) == \A q \in Runs : q < p => pc[q] # "idle"

Init == InitPipe /\ ParkedViewer /\ ParkedText /\ ParkedConfig /\ ParkedSide

Next ==
    \/ \E p \in Runs, o \in IoOptions :
            Quiet /\ InOrder(p) /\ Start(p, o) /\ UNCHANGED <<viewVars, cfgVars, textVars, sideVars>>
    \/ \E p \in Runs : Mkdir(p) /\ UNCHANGED <<viewVars, cfgVars, textVars, sideVars>>
    \/ \E p \in Runs : WritePalettes(p) /\ UNCHANGED <<viewVars, cfgVars, textVars, sideVars>>
    \/ \E p \in Runs : FetchAll(p) /\ UNCHANGED <<viewVars, cfgVars, textVars, sideVars>>
    \/ \E p \in Runs : AwaitRejected(p) /\ UNCHANGED <<viewVars, cfgVars, textVars, sideVars>>
    \/ \E p \in Runs : AwaitResolved(p) /\ UNCHANGED <<viewVars, cfgVars, textVars, sideVars>>
    \/ \E p \in Runs : WriteOpenProps(p) /\ UNCHANGED <<viewVars, cfgVars, textVars, sideVars>>
    \/ \E p \in Runs : WriteSemantic(p) /\ UNCHANGED <<viewVars, cfgVars, textVars, sideVars>>
    \/ \E p \in Runs : WriteIndex(p) /\ UNCHANGED <<viewVars, cfgVars, textVars, sideVars>>
    \/ \E p \in Runs : StatApp(p) /\ UNCHANGED <<viewVars, cfgVars, textVars, sideVars>>
    \/ \E p \in Runs : WriteApp(p) /\ UNCHANGED <<viewVars, cfgVars, textVars, sideVars>>
    \/ \E p \in Runs : \E i \in DOMAIN req[p], outcome \in {"ok"} \cup FetchFailures :
            Settle(p, i, outcome) /\ UNCHANGED <<viewVars, cfgVars, textVars, sideVars>>
    \/ \E text \in ConsumerTexts : Quiet /\ ConsumerEdit(text) /\ UNCHANGED <<viewVars, cfgVars, textVars, sideVars>>
    \/ Quiet /\ ConsumerRemove /\ UNCHANGED <<viewVars, cfgVars, textVars, sideVars>>

Spec == Init /\ [][Next]_vars

\* the generators under a running clock: sequential runs whose fetches all
\* succeed, with or without a contrast level, while time passes at any point
GenOptions ==
    {[seed |-> "#769CDF", config |-> [openprops |-> [files |-> <<"shadows">>]]],
     [seed |-> "#769CDF", contrast |-> "high",
      config |-> [openprops |-> [files |-> <<"shadows">>]]]}

NextGen ==
    \/ \E p \in Runs, o \in GenOptions :
            Quiet /\ InOrder(p) /\ Start(p, o) /\ UNCHANGED <<viewVars, cfgVars, textVars, sideVars>>
    \/ \E p \in Runs : Mkdir(p) /\ UNCHANGED <<viewVars, cfgVars, textVars, sideVars>>
    \/ \E p \in Runs : WritePalettes(p) /\ UNCHANGED <<viewVars, cfgVars, textVars, sideVars>>
    \/ \E p \in Runs : FetchAll(p) /\ UNCHANGED <<viewVars, cfgVars, textVars, sideVars>>
    \/ \E p \in Runs : AwaitResolved(p) /\ UNCHANGED <<viewVars, cfgVars, textVars, sideVars>>
    \/ \E p \in Runs : WriteOpenProps(p) /\ UNCHANGED <<viewVars, cfgVars, textVars, sideVars>>
    \/ \E p \in Runs : WriteSemantic(p) /\ UNCHANGED <<viewVars, cfgVars, textVars, sideVars>>
    \/ \E p \in Runs : WriteIndex(p) /\ UNCHANGED <<viewVars, cfgVars, textVars, sideVars>>
    \/ \E p \in Runs : StatApp(p) /\ UNCHANGED <<viewVars, cfgVars, textVars, sideVars>>
    \/ \E p \in Runs : WriteApp(p) /\ UNCHANGED <<viewVars, cfgVars, textVars, sideVars>>
    \/ \E p \in Runs : \E i \in DOMAIN req[p] :
            Settle(p, i, "ok") /\ UNCHANGED <<viewVars, cfgVars, textVars, sideVars>>
    \/ Tick /\ UNCHANGED <<viewVars, cfgVars, textVars, sideVars>>

SpecGen == Init /\ [][NextGen]_vars

\* the adapter on its own
InitAdapter == InitText /\ InitPipe /\ ParkedViewer /\ ParkedConfig /\ ParkedSide

NextText ==
    \/ Transform /\ UNCHANGED <<viewVars, pipeVars, cfgVars, sideVars>>
    \/ Prefix /\ UNCHANGED <<viewVars, pipeVars, cfgVars, sideVars>>
    \/ Emit /\ UNCHANGED <<viewVars, pipeVars, cfgVars, sideVars>>

SpecText == InitAdapter /\ [][NextText]_vars

\* the configuration merger on its own
NextConfig ==
    \/ MergeConfig /\ UNCHANGED <<viewVars, pipeVars, textVars, sideVars>>
    \/ CallConfig /\ UNCHANGED <<viewVars, pipeVars, textVars, sideVars>>

InitMerger == InitConfig /\ InitPipe /\ ParkedViewer /\ ParkedText /\ ParkedSide

SpecConfig == InitMerger /\ [][NextConfig]_vars

-----------------------------------------------------------------------------
(* The specifications of the parts taken on their own                      *)

\* generateTheme for every accepted seed spelling and every variant
InitGenerator == InitTheme /\ InitPipe /\ ParkedViewer /\ ParkedText /\ ParkedConfig /\ ParkedRender /\ ParkedFetch

NextTheme == GenerateTheme /\ UNCHANGED <<viewVars, pipeVars, cfgVars, textVars, renderVars, fetchVars>>

SpecTheme == InitGenerator /\ [][NextTheme]_vars

\* the theme document: a generated theme is formatted, may lose top-level
\* keys, and is parsed
DocumentSeeds == {"#769CDF", "abc"}
DocumentVariants == {"tonal-spot", "monochrome"}

InitDocument ==
    /\ InitTheme /\ thSeed \in DocumentSeeds /\ thVariant \in DocumentVariants
    /\ InitPipe /\ ParkedViewer /\ ParkedText /\ ParkedConfig /\ ParkedRender /\ ParkedFetch

NextJson ==
    \/ GenerateTheme /\ UNCHANGED <<viewVars, pipeVars, cfgVars, textVars, renderVars, fetchVars>>
    \/ FormatTheme /\ UNCHANGED <<viewVars, pipeVars, cfgVars, textVars, renderVars, fetchVars>>
    \/ \E keys \in SUBSET DroppableKeys :
            DropKeys(keys) /\ UNCHANGED <<viewVars, pipeVars, cfgVars, textVars, renderVars, fetchVars>>
    \/ ParseTheme /\ UNCHANGED <<viewVars, pipeVars, cfgVars, textVars, renderVars, fetchVars>>

SpecJson == InitDocument /\ [][NextJson]_vars

\* the renderers, one call each
InitRenderer == InitRender /\ InitPipe /\ ParkedViewer /\ ParkedText /\ ParkedConfig /\ ParkedTheme /\ ParkedFetch

NextRender ==
    \/ RenderSemantic /\ UNCHANGED <<viewVars, pipeVars, cfgVars, textVars, themeVars, fetchVars>>
    \/ RenderIndex /\ UNCHANGED <<viewVars, pipeVars, cfgVars, textVars, themeVars, fetchVars>>
    \/ FormatColor /\ UNCHANGED <<viewVars, pipeVars, cfgVars, textVars, themeVars, fetchVars>>
    \/ RenderPalettesCSS /\ UNCHANGED <<viewVars, pipeVars, cfgVars, textVars, themeVars, fetchVars>>

SpecRender == InitRenderer /\ [][NextRender]_vars

\* one fetchAllOpenProps call: the fetches answer, fail or run into their
\* timers in any order while time passes
InitFetcher == InitFetch /\ InitPipe /\ ParkedViewer /\ ParkedText /\ ParkedConfig /\ ParkedTheme /\ ParkedRender

NextFetch ==
    \/ StartFetches /\ UNCHANGED <<viewVars, pipeVars, cfgVars, textVars, themeVars, renderVars>>
    \/ \E i \in DOMAIN fetches, ok \in BOOLEAN :
            Respond(i, ok) /\ UNCHANGED <<viewVars, pipeVars, cfgVars, textVars, themeVars, renderVars>>
    \/ \E i \in DOMAIN fetches :
            NetworkError(i) /\ UNCHANGED <<viewVars, pipeVars, cfgVars, textVars, themeVars, renderVars>>
    \/ \E i \in DOMAIN fetches :
            BodyRead(i) /\ UNCHANGED <<viewVars, pipeVars, cfgVars, textVars, themeVars, renderVars>>
    \/ \E i \in DOMAIN fetches :
            TimerFires(i) /\ UNCHANGED <<viewVars, pipeVars, cfgVars, textVars, themeVars, renderVars>>
    \/ \E i \in DOMAIN fetches :
            AbortRejects(i) /\ UNCHANGED <<viewVars, pipeVars, cfgVars, textVars, themeVars, renderVars>>
    \/ Pass /\ UNCHANGED <<viewVars, pipeVars, cfgVars, textVars, themeVars, renderVars>>
    \/ PromiseAll /\ UNCHANGED <<viewVars, pipeVars, cfgVars, textVars, themeVars, renderVars>>

SpecFetch == InitFetcher /\ [][NextFetch]_vars

\* two runs on one output directory at the same time, their steps in any
\* order, while the consumer writes app.css at any moment
RaceOptions == {[seed |-> "#769CDF", config |-> [openprops |-> [files |-> <<"sizes">>]]]}

NextRace ==
    \/ \E p \in Runs, o \in RaceOptions :
            InOrder(p) /\ Start(p, o) /\ UNCHANGED <<viewVars, cfgVars, textVars, sideVars>>
    \/ \E p \in Runs : Mkdir(p) /\ UNCHANGED <<viewVars, cfgVars, textVars, sideVars>>
    \/ \E p \in Runs : WritePalettes(p) /\ UNCHANGED <<viewVars, cfgVars, textVars, sideVars>>
    \/ \E p \in Runs : FetchAll(p) /\ UNCHANGED <<viewVars, cfgVars, textVars, sideVars>>
    \/ \E p \in Runs : \E i \in DOMAIN req[p] :
            Settle(p, i, "ok") /\ UNCHANGED <<viewVars, cfgVars, textVars, sideVars>>
    \/ \E p \in Runs : AwaitResolved(p) /\ UNCHANGED <<viewVars, cfgVars, textVars, sideVars>>
    \/ \E p \in Runs : WriteOpenProps(p) /\ UNCHANGED <<viewVars, cfgVars, textVars, sideVars>>
    \/ \E p \in Runs : WriteSemantic(p) /\ UNCHANGED <<viewVars, cfgVars, textVars, sideVars>>
    \/ \E p \in Runs : WriteIndex(p) /\ UNCHANGED <<viewVars, cfgVars, textVars, sideVars>>
    \/ \E p \in Runs : StatApp(p) /\ UNCHANGED <<viewVars, cfgVars, textVars, sideVars>>
    \/ \E p \in Runs : WriteApp(p) /\ UNCHANGED <<viewVars, cfgVars, textVars, sideVars>>
    \/ \E text \in ConsumerTexts : ConsumerEdit(text) /\ UNCHANGED <<viewVars, cfgVars, textVars, sideVars>>

SpecRace == Init /\ [][NextRace]_vars

\* the configurator component on its own: the user's events in any order,
\* the pending update and the debounce timer between them
InitConfigurator == InitViewer /\ InitPipe /\ ParkedText /\ ParkedConfig /\ ParkedSide

NextViewer ==
    \/ \E dark \in BOOLEAN : Connect(dark) /\ UNCHANGED <<pipeVars, cfgVars, textVars, sideVars>>
    \/ Updated /\ UNCHANGED <<pipeVars, cfgVars, textVars, sideVars>>
    \/ \E raw \in HexTexts : OnHexInput(raw) /\ UNCHANGED <<pipeVars, cfgVars, textVars, sideVars>>
    \/ OnHexBlur /\ UNCHANGED <<pipeVars, cfgVars, textVars, sideVars>>
    \/ \E hue \in SliderHues : OnHueInput(hue) /\ UNCHANGED <<pipeVars, cfgVars, textVars, sideVars>>
    \/ DebounceFires /\ UNCHANGED <<pipeVars, cfgVars, textVars, sideVars>>
    \/ \E v \in ViewerVariants : SelectVariant(v) /\ UNCHANGED <<pipeVars, cfgVars, textVars, sideVars>>
    \/ \E level \in ViewerContrasts :
            SelectContrast(level) /\ UNCHANGED <<pipeVars, cfgVars, textVars, sideVars>>
    \/ CycleTheme /\ UNCHANGED <<pipeVars, cfgVars, textVars, sideVars>>

SpecViewer == InitConfigurator /\ [][NextViewer]_vars

-----------------------------------------------------------------------------
(* Reading a stylesheet: declaration sites and references                  *)

\* --name\s*: , the name in group 1
DeclRe == <<Lit("--"), Open(1), One(Letters), Star(NameChars), Close(1), Star(WhiteSpace), Lit(":")>>

\* var(--name , the name in group 1
VarRe == <<Lit("var("), Star(WhiteSpace), Lit("--"), Open(1), One(Letters), Star(NameChars), Close(1)>>

\* every match of re in s, left to right
RECURSIVE Matches(_, _, _)
Matches(re, s, i) ==
    LET m == Exec(re, s, i)
    IN  IF ~m.ok THEN <<>> ELSE <<m>> \o Matches(re, s, m.to)

\* the last character before position i that is not white space, "" when none
CharBefore(s, i) ==
    IF \A k \in 1..(i - 1) : IsSpace(SubSeq(s, k, k)) THEN ""
    ELSE LET j == CHOOSE j \in 1..(i - 1) :
                    /\ ~IsSpace(SubSeq(s, j, j))
                    /\ \A k \in (j + 1)..(i - 1) : IsSpace(SubSeq(s, k, k))
         IN  SubSeq(s, j, j)

\* the names declared in s, in order: a declaration stands at the top of a
\* block, that is first in the text, after '{' or after ';'
DeclaredNames(s) ==
    LET all == Matches(DeclRe, s, 1)
        sites == SelectSeq(all, LAMBDA m : CharBefore(s, m.from) \in {"", "{", ";"})
    IN  [k \in DOMAIN sites |-> Group(s, sites[k], 1)]

\* the names referenced in s, in order
ReferencedNames(s) ==
    LET all == Matches(VarRe, s, 1)
    IN  [k \in DOMAIN all |-> Group(s, all[k], 1)]

\* C4: after prefixing, every declaration of the adapted text carries the
\* primitives prefix exactly once, wherever it sits (start of line, after
\* white space, after ';', directly after '{')
EveryDeclarationPrefixed ==
    cssPc = "prefixed" =>
        DeclaredNames(css) =
            [k \in DOMAIN DeclaredNames(cssMid) |->
                cssArg.prefix \o "-" \o DeclaredNames(cssMid)[k]]

\* C5: prefixing leaves every var(--name) reference as it was, also when a
\* declaration and a reference stand next to each other on one line
ReferencesKept ==
    cssPc = "prefixed" => ReferencedNames(css) = ReferencedNames(cssMid)

\* the declaration of --size-1, renamed, and after it on the same line a
\* reference to --size-1
AdjacentRe(prefix) ==
    <<Lit("--" \o prefix \o "-size-1:"), Class({"\n"}, TRUE, 0, 0), Lit("var(--size-1)")>>

ReferencesKeptWitness ==
    /\ cssPc = "prefixed"
    /\ Exec(AdjacentRe(cssArg.prefix), css, 1).ok
    /\ ReferencedNames(cssMid) = <<"size-1">>

-----------------------------------------------------------------------------
(* Reading a stylesheet as a browser does: rules, selectors, the cascade   *)
(* on the root element, for an OS preference and a data-theme attribute    *)

\* the first position from i on where lit stands, 0 when none
Find(s, lit, i) ==
    IF \E j \in i..Len(s) : StartsAt(s, j, lit)
    THEN CHOOSE j \in i..Len(s) : StartsAt(s, j, lit) /\ \A k \in i..(j - 1) : ~StartsAt(s, k, lit)
    ELSE 0

\* past white space and comments
RECURSIVE SkipBlank(_, _)
SkipBlank(s, i) ==
    IF i > Len(s) THEN i
    ELSE IF IsSpace(SubSeq(s, i, i)) THEN SkipBlank(s, i + 1)
    ELSE IF StartsAt(s, i, "/*")
         THEN (IF Find(s, "*/", i + 2) = 0 THEN Len(s) + 1
               ELSE SkipBlank(s, Find(s, "*/", i + 2) + 2))
    ELSE i

\* the style rules from i on, up to the end of the enclosing block, each
\* with the condition of the @media block around it ("" outside one)
RECURSIVE ParseRules(_, _, _)
ParseRules(s, i0, media) ==
    LET i == SkipBlank(s, i0)
    IN  IF i > Len(s) THEN [rules |-> <<>>, pos |-> i]
        ELSE IF SubSeq(s, i, i) = "}" THEN [rules |-> <<>>, pos |-> i + 1]
        ELSE
        LET open == Find(s, "{", i)
            prelude == Trim(SubSeq(s, i, open - 1))
        IN  IF StartsAt(prelude, 1, "@")
            THEN LET inner == ParseRules(s, open + 1,
                                IF StartsAt(prelude, 1, "@media")
                                THEN Trim(From(prelude, 7)) ELSE media)
                     rest == ParseRules(s, inner.pos, media)
                 IN  [rules |-> inner.rules \o rest.rules, pos |-> rest.pos]
            ELSE LET close == Find(s, "}", open + 1)
                     rest == ParseRules(s, close + 1, media)
                 IN  [rules |-> <<[media |-> media, selector |-> prelude,
                                   body |-> SubSeq(s, open + 1, close - 1)]>> \o rest.rules,
                      pos |-> rest.pos]

StyleRules(s) == ParseRules(s, 1, "").rules

\* the declarations of a rule body, in order, as <<property, value>>:
\* the pieces between semicolons that hold a colon
Declarations(rule) ==
    LET body == rule.body \o ";"
        semis == {j \in 1..Len(body) : SubSeq(body, j, j) = ";"}
        Semi(n) == IF n = 0 THEN 0
                   ELSE CHOOSE j \in semis : Cardinality({x \in semis : x < j}) = n - 1
        Piece(n) == SubSeq(body, SkipBlank(body, Semi(n - 1) + 1), Semi(n) - 1)
        pieces == [n \in 1..Cardinality(semis) |-> Piece(n)]
        decls == SelectSeq(pieces, LAMBDA d : Find(d, ":", 1) > 0)
    IN  [n \in DOMAIN decls |->
            <<Trim(SubSeq(decls[n], 1, Find(decls[n], ":", 1) - 1)),
              Trim(From(decls[n], Find(decls[n], ":", 1) + 1))>>]

\* the simple selectors of a compound selector
SimpleSelectorRe ==
    <<Alt(<< <<Lit(":root")>>, <<Lit(":where(html)")>>,
             <<Lit(":not([data-theme=\""), Open(1), NotPlus({"\""}), Close(1), Lit("\"])")>>,
             <<Lit("[data-theme=\""), Open(2), NotPlus({"\""}), Close(2), Lit("\"]")>> >>)>>

SimpleSelectors(selector) == Matches(SimpleSelectorRe, selector, 1)

\* the data-theme attribute of the root element: "" when absent
ThemeAttrs == {"", "light", "dark"}
Preferences == {"light", "dark"}

\* does the simple selector matched by m select the root element
SelectsRoot(selector, m, attr) ==
    IF m.caps[1][1] > 0 THEN attr # Group(selector, m, 1)
    ELSE IF m.caps[2][1] > 0 THEN attr = Group(selector, m, 2)
    ELSE TRUE

\* :where() weighs nothing; :root, an attribute and :not(attribute) weigh
\* one class each
Specificity(selector) ==
    Cardinality({k \in DOMAIN SimpleSelectors(selector) :
                    SubSeq(selector, SimpleSelectors(selector)[k].from,
                           SimpleSelectors(selector)[k].to - 1) # ":where(html)"})

RuleApplies(rule, os, attr) ==
    /\ rule.media = "" \/ (rule.media = "(prefers-color-scheme: dark)" /\ os = "dark")
    /\ SimpleSelectors(rule.selector) # <<>>
    /\ \A k \in DOMAIN SimpleSelectors(rule.selector) :
            SelectsRoot(rule.selector, SimpleSelectors(rule.selector)[k], attr)

Declares(rule, property) ==
    \E d \in DOMAIN Declarations(rule) : Declarations(rule)[d][1] = property

DeclaredValue(rule, property) ==
    LET ds == Declarations(rule)
    IN  ds[CHOOSE d \in DOMAIN ds :
                ds[d][1] = property /\ \A e \in (d + 1)..Len(ds) : ds[e][1] # property][2]

\* the cascaded value of a property on the root element: of the rules that
\* apply, the most specific wins, and of those the last; "" when none applies
CascadedValue(rules, property, os, attr) ==
    LET cands == {r \in DOMAIN rules :
                    RuleApplies(rules[r], os, attr) /\ Declares(rules[r], property)}
    IN  IF cands = {} THEN ""
        ELSE DeclaredValue(rules[CHOOSE r \in cands : \A q \in cands :
                    \/ Specificity(rules[q].selector) < Specificity(rules[r].selector)
                    \/ /\ Specificity(rules[q].selector) = Specificity(rules[r].selector)
                       /\ q <= r], property)

\* semantic.css of a run with the default options
SemanticSheet ==
    LET t == generateTheme("#769CDF", "tonal-spot", 0)
    IN  generateSemanticCSS(t.schemes["light"], t.schemes["dark"], DEFAULT_CONFIG.semantic,
                            DEFAULT_CONFIG.prefixes, "oklch", getHue("#769CDF"), 0)

\* the colour scheme semantic.css resolves to: "light dark" follows the OS
ColorScheme(os, attr) ==
    LET v == CascadedValue(StyleRules(SemanticSheet), "color-scheme", os, attr)
    IN  IF v = "light dark" THEN os ELSE v

DarkStates == {st \in Preferences \X ThemeAttrs : ColorScheme(st[1], st[2]) = "dark"}

\* the dark-mode rules of a sheet: those under the dark media query and
\* those for data-theme="dark"
IsDarkRule(rule) ==
    \/ rule.media = "(prefers-color-scheme: dark)"
    \/ \E k \in DOMAIN SimpleSelectors(rule.selector) :
            /\ SimpleSelectors(rule.selector)[k].caps[2][1] > 0
            /\ Group(rule.selector, SimpleSelectors(rule.selector)[k], 2) = "dark"

\* the dark-mode declarations of a sheet, as <<property, value>>
DarkDeclarations(rules) ==
    UNION {Range(Declarations(rules[r])) : r \in {q \in DOMAIN rules : IsDarkRule(rules[q])}}

\* C6: for every OS preference and every data-theme attribute, the adapted
\* shadows sheet gives its dark-mode declarations effect exactly when
\* semantic.css resolves color-scheme to dark: the attribute is dark, or it
\* is absent and the OS prefers dark
ShadowsFollowColorScheme ==
    (cssPc = "emitted" /\ cssName = "shadows") =>
        LET rules == StyleRules(css)
        IN  /\ DarkStates = {<<"light", "dark">>, <<"dark", "dark">>, <<"dark", "">>}
            /\ \A st \in Preferences \X ThemeAttrs : \A d \in DarkDeclarations(rules) :
                    (CascadedValue(rules, d[1], st[1], st[2]) = d[2]) <=> (st \in DarkStates)

ShadowsFollowColorSchemeWitness ==
    /\ cssPc = "emitted" /\ cssName = "shadows" /\ cssArg.seedHue = 111
    /\ <<"--op-shadow-color", "11 30% 5%">> \in DarkDeclarations(StyleRules(css))
    /\ CascadedValue(StyleRules(css), "--op-shadow-color", "light", "dark") = "11 30% 5%"
    /\ CascadedValue(StyleRules(css), "--op-shadow-color", "dark", "light") = "11 10% 15%"
    /\ CascadedValue(StyleRules(css), "--op-shadow-color", "dark", "") = "11 30% 5%"

-----------------------------------------------------------------------------
(* The resolved configuration                                              *)

\* C9: in every resolved configuration the three tiers have pairwise
\* different prefixes
PrefixesDistinct ==
    cfgPc \in {"merged", "called"} =>
        /\ resolved.prefixes.primitives # resolved.prefixes.palette
        /\ resolved.prefixes.primitives # resolved.prefixes.semantic
        /\ resolved.prefixes.palette # resolved.prefixes.semantic

\* the keys of a section the caller gave a value for: those of the
\* override and, in a generateTokens call with an output option, output.dir
Mentioned(section) ==
    DOMAIN Prop(userConfig, section, NoProps)
    \cup (IF cfgPc = "called" /\ section = "output" /\ Prop(callOpt, "output", "") # ""
          THEN {"dir"} ELSE {})

\* C10: a partial override of prefixes, output, openprops or semantic keeps
\* every key of the section it does not mention at the default; the
\* section is never replaced as a whole
UnmentionedKeysKeepDefaults ==
    cfgPc \in {"merged", "called"} =>
        \A section \in Sections :
            /\ DOMAIN DEFAULT_CONFIG[section] \subseteq DOMAIN resolved[section]
            /\ \A key \in DOMAIN DEFAULT_CONFIG[section] \ Mentioned(section) :
                    resolved[section][key] = DEFAULT_CONFIG[section][key]
            /\ \A key \in DOMAIN Prop(userConfig, section, NoProps) :
                    \/ resolved[section][key] = userConfig[section][key]
                    \/ section = "output" /\ key = "dir" /\ Prop(callOpt, "output", "") # ""

UnmentionedKeysKeepDefaultsWitness ==
    /\ cfgPc = "merged"
    /\ "prefixes" \in DOMAIN userConfig /\ "semantic" \in DOMAIN userConfig
    /\ userConfig.prefixes = [palette |-> "x"]
    /\ userConfig.semantic = [space |-> << <<"xs", "size-1">> >>]
    /\ resolved.prefixes = [primitives |-> "op", palette |-> "x", semantic |-> "ui"]
    /\ resolved.semantic.space = << <<"xs", "size-1">> >>
    /\ resolved.semantic.radius = DEFAULT_CONFIG.semantic.radius

-----------------------------------------------------------------------------
(* The runs and the output directory                                       *)

\* the files a run regenerates: palettes.css, one file per configured Open
\* Props source, semantic.css and index.css
GeneratedPaths(p) ==
    {palettesPath(cfg[p]), semanticPath(cfg[p]), indexPath(cfg[p])}
    \cup {openPropsPath(cfg[p], name) : name \in Range(cfg[p].openprops.files)}

\* a step of run p
RunStepOf(p) == pc'[p] # pc[p] \/ out'[p] # out[p] \/ req'[p] # req[p]

\* C1: in sequential runs with consumer edits between them, a run writes
\* app.css only if its own existence check found it absent, an app.css
\* that is present is left byte for byte as it is by every step of a run,
\* and a successful run has rewritten palettes.css, every Open Props file,
\* semantic.css and index.css
ScaffoldWrittenOnce ==
    /\ [](\A p \in Runs :
            /\ appPath(cfg[p]) \in DOMAIN out[p] => appExists[p] = "absent"
            /\ pc[p] = "done" =>
                    \A path \in GeneratedPaths(p) : path \in DOMAIN out[p] /\ path \in DOMAIN fs)
    /\ [][\A p \in Runs :
            (RunStepOf(p) /\ appPath(cfg'[p]) \in DOMAIN fs) =>
                /\ appPath(cfg'[p]) \in DOMAIN fs'
                /\ fs'[appPath(cfg'[p])] = fs[appPath(cfg'[p])]]_vars

\* the first run wrote the scaffold, the consumer edited it, the second
\* run found it and regenerated everything else
ScaffoldWrittenOnceWitness ==
    /\ pc[1] = "done" /\ pc[2] = "done"
    /\ appExists[1] = "absent" /\ appPath(cfg[1]) \in DOMAIN out[1]
    /\ appExists[2] = "present" /\ appPath(cfg[2]) \notin DOMAIN out[2]
    /\ fs[appPath(cfg[2])] \in ConsumerTexts
    /\ GeneratedPaths(2) \subseteq DOMAIN out[2]

\* C2: when the file list holds an unknown name, no request has been
\* started for any file of the list before the unknown-file error is raised
NoRequestBeforeUnknownFile ==
    \A p \in Runs :
        FirstThrow(netlog[p]) > 0 =>
            \A j \in 1..(FirstThrow(netlog[p]) - 1) : netlog[p][j].event # "request"

\* C3: a run that failed on a fetch has written no generated file
FailedRunWroteNothing ==
    \A p \in Runs : pc[p] = "failed" => DOMAIN out[p] = {}

\* the heading line that carries the time of generation, and the text
\* without it
StampAt(text) == Find(text, "\n * Generated: ", 1)

StampOf(text) ==
    IF StampAt(text) = 0 THEN ""
    ELSE SubSeq(text, StampAt(text) + 1, Find(text, "\n", StampAt(text) + 1) - 1)

WithoutStamp(text) ==
    IF StampAt(text) = 0 THEN text
    ELSE SubSeq(text, 1, StampAt(text)) \o From(text, Find(text, "\n", StampAt(text) + 1) + 1)

\* the scheme pair of a contrast level
ContrastPair(level) ==
    CASE level = "standard" -> <<"light", "dark">>
      [] level = "medium" -> <<"light-medium-contrast", "dark-medium-contrast">>
      [] level = "high" -> <<"light-high-contrast", "dark-high-contrast">>

\* semantic.css as the scheme pair of the run's contrast level gives it
SemanticOfContrast(p) ==
    LET pair == ContrastPair(Prop(opt[p], "contrast", "standard"))
    IN  generateSemanticCSS(theme[p].schemes[pair[1]], theme[p].schemes[pair[2]],
                            cfg[p].semantic, cfg[p].prefixes, cfg[p].format,
                            getHue(opt[p].seed), 0)

\* C7: the contrast level of a run selects the scheme pair semantic.css is
\* rendered from
ContrastSelectsSchemes ==
    \A p \in Runs :
        semanticPath(cfg[p]) \in DOMAIN out[p] =>
            WithoutStamp(out[p][semanticPath(cfg[p])]) = WithoutStamp(SemanticOfContrast(p))

BothDoneSameInputs == pc[1] = "done" /\ pc[2] = "done" /\ opt[1] = opt[2]

-----------------------------------------------------------------------------
(* The theme generator                                                     *)

\* the canonical form of a seed spelling: '#', then six upper-case digits,
\* the three digits of a short spelling doubled
CanonicalSeed(spelling) ==
    LET d == toUpperCase(IF StartsAt(spelling, 1, "#") THEN From(spelling, 2) ELSE spelling)
    IN  "#" \o (IF Len(d) = 3
                THEN Ch(d, 1) \o Ch(d, 1) \o Ch(d, 2) \o Ch(d, 2) \o Ch(d, 3) \o Ch(d, 3)
                ELSE d)

\* C11: every accepted seed spelling is normalised to the canonical
\* upper-case #RRGGBB form, normalising again changes nothing, and
\* generateTheme reports that form as seed and as coreColors.primary
SeedCanonical ==
    thPc = "generated" =>
        /\ thTheme.seed = CanonicalSeed(thSeed)
        /\ thTheme.coreColors.primary = CanonicalSeed(thSeed)
        /\ normalizedSeed(thTheme.seed) = thTheme.seed

\* the parameters a scheme key stands for
KeyIsDark(key) == StartsAt(key, 1, "dark")

KeyContrast(key) ==
    IF Find(key, "-medium-contrast", 1) > 0 THEN "0.5"
    ELSE IF Find(key, "-high-contrast", 1) > 0 THEN "1.0"
    ELSE "0.0"

\* C12: the scheme set has exactly the six keys, and each key holds the
\* engine's colours for its own parameters: dark for the dark* keys,
\* contrast 0.0, 0.5 and 1.0 for the plain, -medium-contrast and
\* -high-contrast keys
SchemeSetComplete ==
    thPc = "generated" =>
        /\ DOMAIN thTheme.schemes =
                {"light", "light-medium-contrast", "light-high-contrast",
                 "dark", "dark-medium-contrast", "dark-high-contrast"}
        /\ \A key \in DOMAIN thTheme.schemes :
                \A role \in DOMAIN thTheme.schemes[key] :
                    thTheme.schemes[key][role] =
                        SchemeRoleHex([hct |-> argbFromHex(thSeed), variant |-> thVariant,
                                       isDark |-> KeyIsDark(key), contrast |-> KeyContrast(key)],
                                      role)

SchemeSetCompleteWitness ==
    /\ thPc = "generated" /\ thVariant = "vibrant" /\ thSeed = "e8175d"
    /\ thTheme.schemes["dark-high-contrast"]["onPrimary"] = "#E8175D/vibrant/dark/1.0/onPrimary"
    /\ thTheme.schemes["light-medium-contrast"]["primary"] = "#E8175D/vibrant/light/0.5/primary"

\* C13: for every accepted seed and each of the seven variants the palette
\* set has exactly the five keys, and every palette exactly the 18 tones
PaletteSetComplete ==
    thPc = "generated" =>
        /\ DOMAIN thTheme.palettes =
                {"primary", "secondary", "tertiary", "neutral", "neutral-variant"}
        /\ \A name \in DOMAIN thTheme.palettes :
                DOMAIN thTheme.palettes[name] =
                    {"0", "5", "10", "15", "20", "25", "30", "35", "40", "50", "60", "70",
                     "80", "90", "95", "98", "99", "100"}

PaletteSetCompleteWitness ==
    /\ thPc = "generated" /\ thVariant = "monochrome" /\ thSeed = "#abc"
    /\ Cardinality(DOMAIN thTheme.palettes) = 5
    /\ Cardinality(DOMAIN thTheme.palettes["neutral-variant"]) = 18
    /\ thTheme.palettes["neutral-variant"]["98"] = "#AABBCC/monochrome/neutralVariant/98"

-----------------------------------------------------------------------------
(* The theme document                                                      *)

\* the document has no top-level member of that key: members of the top
\* level stand at the start of a line, four spaces in
Absent(json, key) == Find(json, "\n    \"" \o key \o "\": ", 1) = 0

\* C14: parseThemeJson accepts the document formatThemeJson produces for a
\* generated theme and returns a theme equal to the original, and it fails
\* with a parse error for a document without seed, schemes or palettes
DocumentRoundTrip ==
    thPc = "parsed" =>
        /\ thDropped = {} => thParsed.ok /\ Plain(thParsed.value) = thTheme
        /\ (Absent(thJson, "seed") \/ Absent(thJson, "schemes") \/ Absent(thJson, "palettes"))
                => ~thParsed.ok /\ thParsed = MissingFields

\* a document read back: its description holds a line break, written \n in
\* the document
DocumentRoundTripWitness ==
    /\ thPc = "parsed" /\ thDropped = {} /\ thSeed = "abc"
    /\ Find(thJson, "export", 1) > 0
    /\ Find(thJson, "CUSTOM\\nMaterial", 1) > 0
    /\ thParsed.ok
    /\ Find(Plain(thParsed.value).description, "CUSTOM\nMaterial", 1) > 0
    /\ Plain(thParsed.value).schemes["dark"]["primary"] = "#AABBCC/" \o thVariant \o "/dark/0.0/primary"

-----------------------------------------------------------------------------
(* The renderers                                                           *)

\* @import "./<path>"; , the path in group 1
IndexImportRe == <<Lit("@import \"./"), Open(1), NotPlus({"\""}), Close(1), Lit("\";")>>

\* the paths index.css imports, in the order of the text
Imports(text) ==
    LET all == Matches(IndexImportRe, text, 1)
    IN  [k \in DOMAIN all |-> Group(text, all[k], 1)]

Count(seq, x) == Cardinality({k \in DOMAIN seq : seq[k] = x})

\* C15: index.css imports palettes.css first, then one import per
\* configured third-party file, then semantic.css, then app.css
ImportsInTierOrder ==
    (jobPc = "done" /\ job.kind = "index") =>
        LET imports == Imports(rendered)
            n == Len(job.files)
            third == SubSeq(imports, 2, n + 1)
        IN  /\ Len(imports) = n + 3
            /\ imports[1] = job.paletteSubdir \o "/palettes.css"
            /\ \A k \in 1..n :
                    Count(third, job.openpropsSubdir \o "/" \o job.files[k] \o ".css")
                        = Count(job.files, job.files[k])
            /\ imports[n + 2] = "semantic.css"
            /\ imports[n + 3] = "app.css"

ImportsInTierOrderWitness ==
    /\ jobPc = "done" /\ job.kind = "index"
    /\ job.files = <<"fonts", "app", "borders">>
    /\ Imports(rendered) = <<"material/palettes.css", "open-props/app.css",
                             "open-props/borders.css", "open-props/fonts.css",
                             "semantic.css", "app.css">>

\* C16: formatting a colour with a format outside oklch, hex, hsl, rgb
\* raises an error: no colour text of one of the four formats comes back
UnknownFormatRejected ==
    (jobPc = "done" /\ job.kind = "color" /\ job.format \notin {"oklch", "hex", "hsl", "rgb"}) =>
        \A f \in {"oklch", "hex", "hsl", "rgb"} : rendered # formatColor(job.hex, f)

\* the declarations of the :root rule of a stylesheet
RootDeclarations(text) ==
    LET rules == StyleRules(text)
    IN  Declarations(rules[CHOOSE r \in DOMAIN rules :
            rules[r].selector = ":root" /\ \A q \in 1..(r - 1) : rules[q].selector # ":root"])

\* both schemes of the call have a value for role i of the fixed list
Emitted(i) ==
    /\ COLOR_ROLE_MAP[i][1] \in DOMAIN job.light
    /\ COLOR_ROLE_MAP[i][1] \in DOMAIN job.dark

ColorProperty(i) == "--" \o job.prefixes.semantic \o "-color-" \o COLOR_ROLE_MAP[i][2]

\* C19: semantic.css declares --<semantic prefix>-color-<name> for exactly
\* the roles of the fixed list that both schemes have a value for, each
\* once, with the value light-dark(F(light), F(dark)) in the configured
\* format, the light value first
SemanticColoursDeclared ==
    (jobPc = "done" /\ job.kind = "semantic") =>
        LET decls == RootDeclarations(rendered)
        IN  \A i \in DOMAIN COLOR_ROLE_MAP :
                LET sites == {d \in DOMAIN decls : decls[d][1] = ColorProperty(i)}
                IN  IF Emitted(i)
                    THEN /\ Cardinality(sites) = 1
                         /\ \A d \in sites :
                                decls[d][2] =
                                    "light-dark("
                                    \o formatColor(job.light[COLOR_ROLE_MAP[i][1]], job.format)
                                    \o ", "
                                    \o formatColor(job.dark[COLOR_ROLE_MAP[i][1]], job.format)
                                    \o ")"
                    ELSE sites = {}

SemanticColoursDeclaredWitness ==
    /\ jobPc = "done" /\ job.kind = "semantic" /\ job.format = "hsl"
    /\ "primary" \notin DOMAIN job.light /\ "surfaceTint" \notin DOMAIN job.dark
    /\ "background" \in DOMAIN job.light /\ "onBackground" \in DOMAIN job.dark
    /\ "onPrimary" \in DOMAIN job.dark
    /\ Find(rendered, "--ui-color-primary:", 1) = 0
    /\ Find(rendered, "--ui-color-surface-tint:", 1) = 0
    /\ Find(rendered, "--ui-color-primary-on: light-dark(hsl(#769CDF/tonal-spot/light/0.0/onPrimary), "
                      \o "hsl(#769CDF/tonal-spot/dark/0.0/onPrimary));", 1) > 0

\* the group headers, in their fixed order
GROUP_HEADERS ==
    <<"Primary", "Secondary", "Tertiary", "Surface", "Background", "Error", "Outline",
      "Inverse", "Utility">>

HeaderLine(g) == "    /* " \o GROUP_HEADERS[g] \o " */"

\* the roles of group g that are emitted
EmittedOf(g) == {i \in DOMAIN COLOR_ROLE_MAP : COLOR_ROLE_MAP[i][3] = GROUP_HEADERS[g] /\ Emitted(i)}

\* C20: each group header appears at most once, only if a role of its
\* group is emitted, before all emitted roles of its group, and the
\* headers stand in the fixed order
GroupHeadersOnce ==
    (jobPc = "done" /\ job.kind = "semantic") =>
        LET lines == SplitLines(rendered)
            headers == [g \in DOMAIN GROUP_HEADERS |->
                            {n \in DOMAIN lines : lines[n] = HeaderLine(g)}]
            roleAt == [i \in DOMAIN COLOR_ROLE_MAP |->
                            {n \in DOMAIN lines :
                                StartsAt(lines[n], 1, "    " \o ColorProperty(i) \o ":")}]
        IN  /\ \A i \in DOMAIN COLOR_ROLE_MAP : COLOR_ROLE_MAP[i][3] \in Range(GROUP_HEADERS)
            /\ \A g \in DOMAIN GROUP_HEADERS :
                    /\ Cardinality(headers[g]) <= 1
                    /\ (headers[g] # {}) = (EmittedOf(g) # {})
                    /\ \A at \in headers[g] :
                        /\ \A i \in EmittedOf(g) : roleAt[i] # {} /\ \A n \in roleAt[i] : at < n
                        /\ \A h \in 1..(g - 1) : \A before \in headers[h] : before < at

GroupHeadersOnceWitness ==
    /\ jobPc = "done" /\ job.kind = "semantic" /\ job.format = "oklch"
    /\ DOMAIN job.dark = DOMAIN RenderSchemes["dark"]
    /\ "primary" \notin DOMAIN job.light
    /\ "background" \notin DOMAIN job.light /\ "onBackground" \notin DOMAIN job.light
    /\ Find(rendered, "/* Background */", 1) = 0
    /\ Find(rendered, "/* Primary */\n    --ui-color-primary-on:", 1) > 0
    /\ Find(rendered, "/* Surface */", 1) < Find(rendered, "/* Error */", 1)

\* a role in the middle of its group is skipped: the header is not repeated
GroupHeadersOnceMiddleWitness ==
    /\ jobPc = "done" /\ job.kind = "semantic" /\ job.format = "hex"
    /\ DOMAIN job.light = DOMAIN RenderSchemes["light"]
    /\ "onPrimary" \notin DOMAIN job.dark
    /\ Find(rendered, "--ui-color-primary-on:", 1) = 0
    /\ Find(rendered, "/* Primary */\n    --ui-color-primary:", 1) > 0

-----------------------------------------------------------------------------
(* Two runs and the consumer's app.css                                     *)

\* app.css holds a text of the consumer
ConsumerOwns(files) ==
    /\ appPath(DEFAULT_CONFIG) \in DOMAIN files
    /\ files[appPath(DEFAULT_CONFIG)] \in ConsumerTexts

\* app.css holds the scaffold
ScaffoldIn(files) ==
    /\ appPath(DEFAULT_CONFIG) \in DOMAIN files
    /\ files[appPath(DEFAULT_CONFIG)] = generateAppCSS

\* C17, as stated: under any interleaving of two runs with a consumer
\* writing app.css, no step replaces the consumer's app.css by the scaffold
ConsumerAppNeverOverwritten == [][ConsumerOwns(fs) => ~ScaffoldIn(fs')]_vars

\* C17, amended: a run whose existence check meets the consumer's app.css
\* records it as present and leaves the file system alone at its last
\* step; the scaffold replaces a consumer's text only at the write of a
\* run whose check had found no file
ConsumerAppKeptUnlessRaced ==
    [][/\ \A p \in Runs :
            (pc[p] = "stat" /\ pc'[p] = "app" /\ ConsumerOwns(fs)) => appExists'[p] = "present"
       /\ \A p \in Runs :
            (pc[p] = "app" /\ pc'[p] = "done" /\ appExists[p] = "present") => fs' = fs
       /\ (ConsumerOwns(fs) /\ ScaffoldIn(fs')) =>
            \E p \in Runs : pc[p] = "app" /\ pc'[p] = "done" /\ appExists[p] = "absent"]_vars

\* both runs are over, both met the consumer's file, and it is still there
ConsumerAppKeptUnlessRacedWitness ==
    /\ \A p \in Runs : pc[p] = "done" /\ appExists[p] = "present"
    /\ ConsumerOwns(fs)

\* the race: a run that found no file is about to write while the consumer's
\* text is there
ConsumerAppRaced ==
    \E p \in Runs : pc[p] = "app" /\ appExists[p] = "absent" /\ ConsumerOwns(fs)

-----------------------------------------------------------------------------
(* The fetches and their abort timers                                      *)

\* fetch i went out on the network (its name is a known one)
Requested(i) == fetches[i].name \in DOMAIN OPENPROPS_SOURCE_FILES /\ fetches[i].state # "unstarted"

\* C18, as stated: every fetch either completes, status checked and body
\* read, or is aborted once the timeout has elapsed: a settled fetch has
\* no third outcome
FetchCompletesOrAborts ==
    \A i \in DOMAIN fetches :
        (Requested(i) /\ Settled(fetches[i])) =>
            \/ fetches[i].state = "resolved"
            \/ fetches[i].cause = "abort" /\ elapsed >= FetchTimeout

\* C18, amended: a fetch completes, fails on its own (network error or
\* non-OK status) or is aborted once the timeout has elapsed; none stays
\* pending past the timeout without being aborted; an abort makes the
\* fetch fail and the whole call with it; the timer is cleared on every
\* way out, so a settled fetch has no armed timer and a timer that fired
\* fired before the fetch settled
FetchBoundedByTimer ==
    \A i \in DOMAIN fetches :
        LET f == fetches[i]
        IN  /\ (Requested(i) /\ ~Settled(f)) =>
                    /\ timers[i] = "armed" \/ f.aborted
                    /\ f.aborted \/ elapsed <= FetchTimeout
            /\ f.aborted => elapsed >= FetchTimeout /\ timers[i] = "fired" /\ f.state # "resolved"
            /\ f.state = "resolved" => timers[i] = "cleared"
            /\ f.state = "rejected" =>
                    /\ f.cause \in {"unknown", "status", "network", "abort"}
                    /\ (f.cause = "abort") = f.aborted
            /\ Settled(f) => timers[i] # "armed"
            /\ timers[i] = "fired" => f.aborted
            /\ (f.aborted \/ f.state = "rejected") => allResult.state # "resolved"
            /\ allResult.state = "resolved" => f.state = "resolved"

\* one fetch completed, the other was aborted at the timeout, and the call
\* failed with the abort
FetchBoundedByTimerWitness ==
    /\ elapsed = FetchTimeout
    /\ allResult = [state |-> "rejected", error |-> "abort"]
    /\ \E i, j \in DOMAIN fetches :
            /\ fetches[i].state = "resolved" /\ timers[i] = "cleared"
            /\ fetches[j].state = "rejected" /\ fetches[j].cause = "abort" /\ timers[j] = "fired"

-----------------------------------------------------------------------------
(* The non-colour categories of semantic.css                               *)

\* the declarations of the :root rule that follow the fixed shadow-hue one:
\* those of the non-colour categories
CategoryPart(root) ==
    LET hue == "--" \o job.prefixes.semantic \o "-shadow-hue"
        at == CHOOSE i \in DOMAIN root : root[i][1] = hue /\ \A k \in 1..(i - 1) : root[k][1] # hue
    IN  SubSeq(root, at + 1, Len(root))

\* the declarations of category c among them, as <<key, value>>, in the
\* order of the text
CategoryDeclarationsIn(part, c) ==
    LET lead == "--" \o job.prefixes.semantic \o "-" \o c \o "-"
        decls == SelectSeq(part, LAMBDA d : StartsAt(d[1], 1, lead))
    IN  [i \in DOMAIN decls |-> <<From(decls[i][1], Len(lead) + 1), decls[i][2]>>]

CategoryDeclarations(c) == CategoryDeclarationsIn(CategoryPart(RootDeclarations(rendered)), c)

\* the tokens category c is configured with, as <<key, value>> pairs
Configured(c) == IF c \in DOMAIN job.semantic THEN job.semantic[c] ELSE <<>>

Canonical(key) == key \in Range(SORT_ORDER)

Digit(c) == c \in {"0", "1", "2", "3", "4", "5", "6", "7", "8", "9"}

\* C22: a non-colour value is emitted verbatim exactly when it is "0" or
\* "none" or begins with a digit; every other value v is emitted as
\* var(--<primitives prefix>-v)
SemanticValuesFormatted ==
    (jobPc = "done" /\ job.kind = "semantic") =>
        LET part == CategoryPart(RootDeclarations(rendered))
            all == [c \in DOMAIN job.semantic |-> CategoryDeclarationsIn(part, c)]
        IN
        \A c \in DOMAIN job.semantic :
            \A i \in DOMAIN job.semantic[c] :
                LET key == job.semantic[c][i][1]
                    v == job.semantic[c][i][2]
                    emitted == all[c]
                    verbatim == v = "0" \/ v = "none" \/ (v # "" /\ Digit(Ch(v, 1)))
                IN  /\ \E d \in DOMAIN emitted : emitted[d][1] = key
                    /\ \A d \in DOMAIN emitted :
                        emitted[d][1] = key =>
                            /\ verbatim => emitted[d][2] = v
                            /\ ~verbatim =>
                                emitted[d][2] = "var(--" \o job.prefixes.primitives \o "-" \o v \o ")"
                            /\ (emitted[d][2] = v) = verbatim

SemanticValuesFormattedWitness ==
    /\ jobPc = "done" /\ job.kind = "semantic" /\ job.prefixes.primitives = "prim"
    /\ Find(rendered, "    --ui-radius-alert: var(--prim--1);\n", 1) > 0
    /\ Find(rendered, "    --ui-radius-Button: 150ms;\n", 1) > 0
    /\ Find(rendered, "    --ui-radius-none: 0;\n", 1) > 0
    /\ Find(rendered, "    --ui-space-off: none;\n", 1) > 0
    /\ Find(rendered, "    --ui-space-gap: var(--prim-.5rem);\n", 1) > 0
    /\ Find(rendered, "    --ui-space-2xl: var(--prim-none-1);\n", 1) > 0
    /\ Find(rendered, "    --ui-space-0: 00;\n", 1) > 0

-----------------------------------------------------------------------------
(* The adapted shadows sheet                                               *)

\* the rules of the fetched sheet inside its dark-mode block
RawDarkRules == SelectSeq(StyleRules(cssRaw), LAMBDA r : r.media = "(--OSdark)")

\* declarations with every shadow-color given the value tint
Tinted(decls, tint) ==
    [d \in DOMAIN decls |->
        IF decls[d][1] = "--shadow-color" THEN <<decls[d][1], tint>> ELSE decls[d]]

\* C23: when the fetched shadows sheet has a dark-mode block, the adapted
\* sheet carries that block's declarations twice with the same content,
\* under the data-theme="dark" selector and under the prefers-color-scheme:
\* dark media query, shadow-color being '<hue> 30% 5%' in both and
\* '<hue> 10% 15%' in the root block, <hue> the rounded seed hue
ShadowTintsInjected ==
    (cssPc = "transformed" /\ cssName = "shadows" /\ RawDarkRules # <<>>) =>
        LET rules == StyleRules(css)
            byAttr == SelectSeq(rules, LAMBDA r : r.media = "" /\ r.selector = "[data-theme=\"dark\"]")
            byMedia == SelectSeq(rules, LAMBDA r : r.media = "(prefers-color-scheme: dark)")
            root == SelectSeq(rules, LAMBDA r : r.media = "" /\ r.selector = ":root")
            hue == ToString(MathRound(cssArg.seedHue))
        IN  /\ Len(byAttr) = 1 /\ Len(byMedia) = 1 /\ Len(root) = 1
            /\ byAttr[1].body = byMedia[1].body
            /\ Declarations(byAttr[1]) = Tinted(Declarations(RawDarkRules[1]), hue \o " 30% 5%")
            /\ Declarations(byMedia[1]) = Tinted(Declarations(RawDarkRules[1]), hue \o " 30% 5%")
            /\ Declares(root[1], "--shadow-color")
            /\ DeclaredValue(root[1], "--shadow-color") = hue \o " 10% 15%"

\* C24: the adapted text of any fetched stylesheet holds no @import
\* directive, no :where(html) selector and no @media (--OSdark) condition
NoIdiomLeft ==
    cssPc = "transformed" =>
        /\ Find(css, "@import", 1) = 0
        /\ Find(css, ":where(html)", 1) = 0
        /\ Find(css, "(--OSdark)", 1) = 0

\* C26: in the adapted and prefixed file, a reference var(--name) to a
\* property that the fetched file declares refers to a property that the
\* output declares
NoReferenceDangling ==
    cssPc = "prefixed" =>
        \A k \in DOMAIN ReferencedNames(css) :
            ReferencedNames(cssMid)[k] \in Range(DeclaredNames(cssMid))
                => ReferencedNames(css)[k] \in Range(DeclaredNames(css))

-----------------------------------------------------------------------------
(* palettes.css                                                            *)

\* the palettes in the order of the text, and the tones a step may name
PalettesInOrder == <<"primary", "secondary", "tertiary", "error", "neutral", "neutral-variant">>
Tones == 0..100

\* the declarations of the block that the line `opening` opens and the
\* line "}" closes, one on a line, as <<property, value>>
BlockDeclarations(text, opening) ==
    LET lines == SplitLines(text)
        from == IndexOf(lines, opening)
        to == CHOOSE n \in DOMAIN lines :
                n > from /\ lines[n] = "}" /\ \A k \in (from + 1)..(n - 1) : lines[k] # "}"
        inside == SelectSeq(SubSeq(lines, from + 1, to - 1),
                            LAMBDA l : StartsAt(Trim(l), 1, "--") /\ Find(l, ";", 1) = Len(l))
    IN  [i \in DOMAIN inside |->
            <<Trim(SubSeq(inside[i], 1, Find(inside[i], ":", 1) - 1)),
              Trim(SubSeq(inside[i], Find(inside[i], ":", 1) + 1, Len(inside[i]) - 1))>>] \o <<>>

\* step n of the p-th palette is present in the call
PairPresent(p, n) ==
    /\ PalettesInOrder[p] \in DOMAIN job.palettes
    /\ ToString(n) \in DOMAIN job.palettes[PalettesInOrder[p]]

PaletteProperty(p, n) ==
    "--" \o job.prefixes.palette \o "-palette-" \o PalettesInOrder[p] \o "-" \o ToString(n)

\* C25: for any subset of palettes and of tone steps, the palette renderer
\* returns a sheet that declares one custom property per present (palette,
\* step) pair and no other, the palettes in the order primary, secondary,
\* tertiary, error, neutral, neutral-variant and the steps of a palette by
\* ascending tone
PalettesDeclared ==
    (jobPc = "done" /\ job.kind = "palettes") =>
        \A decls \in {BlockDeclarations(rendered, ":root {")} :
        \A pairs \in {{pn \in (DOMAIN PalettesInOrder) \X Tones : PairPresent(pn[1], pn[2])}} :
        \A owner \in {[d \in DOMAIN decls |->
                        {pn \in pairs : PaletteProperty(pn[1], pn[2]) = decls[d][1]}] \o <<>>} :
            /\ DOMAIN job.palettes \subseteq Range(PalettesInOrder)
            \* as many declarations as present pairs, each of a present pair
            /\ Len(decls) = Cardinality(pairs)
            /\ \A d \in DOMAIN decls :
                /\ Cardinality(owner[d]) = 1
                /\ \A pn \in owner[d] :
                        decls[d][2] =
                            formatColor(job.palettes[PalettesInOrder[pn[1]]][ToString(pn[2])],
                                        job.format)
            \* each declaration after those of earlier palettes and of lower
            \* tones of its palette: no pair is declared twice
            /\ \A d \in 1..(Len(decls) - 1) :
                    \A pn \in owner[d], qm \in owner[d + 1] :
                        pn[1] < qm[1] \/ (pn[1] = qm[1] /\ pn[2] < qm[2])

\* a call without the primary palette and without steps 0 and 100 of two
\* palettes, with the error palette
PalettesDeclaredWitness ==
    /\ jobPc = "done" /\ job.kind = "palettes" /\ job.format = "hex"
    /\ DOMAIN job.palettes = {"secondary", "tertiary", "error", "neutral", "neutral-variant"}
    /\ "0" \notin DOMAIN job.palettes["secondary"] /\ "100" \notin DOMAIN job.palettes["secondary"]
    /\ "50" \in DOMAIN job.palettes["secondary"]
    /\ Find(rendered, ":root {\n  /* Secondary palette */\n  --md-palette-secondary-5:", 1) > 0
    /\ Find(rendered, "--md-palette-error-0:", 1) > 0
    /\ Find(rendered, "--md-palette-primary-", 1) = 0

-----------------------------------------------------------------------------
(* The resolved configuration: semantic short names, format and directory  *)

\* C27: when the configuration overrides one short name of a semantic
\* category, the resolved category keeps every other default short name
\* with its default value
ShortNamesKeepDefaults ==
    cfgPc \in {"merged", "called"} =>
        \A c \in DOMAIN Prop(userConfig, "semantic", NoProps) :
            Len(userConfig.semantic[c]) = 1 =>
                \A i \in DOMAIN DEFAULT_CONFIG.semantic[c] :
                    DEFAULT_CONFIG.semantic[c][i][1] # userConfig.semantic[c][1][1]
                        => DEFAULT_CONFIG.semantic[c][i] \in Range(resolved.semantic[c])

\* C28: a call renders in the format option when one is given, else in the
\* format of the user configuration when it has one, else in oklch; the
\* output directory is the output option, else the directory of the
\* configuration, else ./tokens
OptionsThenConfigThenDefault ==
    cfgPc = "called" =>
        /\ resolved.format =
                IF "format" \in DOMAIN callOpt THEN callOpt.format
                ELSE IF "format" \in DOMAIN userConfig THEN userConfig.format
                ELSE "oklch"
        /\ resolved.output.dir =
                IF Prop(callOpt, "output", "") # "" THEN callOpt.output
                ELSE IF Prop(Prop(userConfig, "output", NoProps), "dir", "") # ""
                     THEN userConfig.output.dir
                ELSE "./tokens"

\* the output directory alone follows the precedence
DirectoryPrecedence ==
    cfgPc = "called" =>
        resolved.output.dir =
            IF Prop(callOpt, "output", "") # "" THEN callOpt.output
            ELSE IF Prop(Prop(userConfig, "output", NoProps), "dir", "") # ""
                 THEN userConfig.output.dir
            ELSE "./tokens"

(***************************************************************************)
(* The index of a completed run                                            *)

\* the file an import of index.css names, resolved against the directory
\* of index.css
ImportTarget(c, path) == PathJoin(c.output.dir, path)

\* the @import lines of a generated index, one import per line
ImportLines(text) ==
    SelectSeq(SplitLines(text), LAMBDA line : StartsAt(line, 1, "@import \"./"))

\* the path of @import "./<path>";
ImportPath(line) == SubSeq(line, 12, Len(line) - 2)

\* the files an index.css of configuration c imports
ImportedBy(c, text) ==
    UNION {{ImportTarget(c, ImportPath(lines[k])) : k \in DOMAIN lines} :
                lines \in {ImportLines(text) \o <<>>}}

\* the files the index.css written by run p imports
ImportedFiles(p) == ImportedBy(cfg[p], out[p][indexPath(cfg[p])])

\* C29: at the moment a run completes successfully, every file imported by
\* the index.css this run wrote exists in the output directory, the
\* palettes, each configured Open Props file, semantic.css and app.css included
ImportedFilesExist ==
    [][\A p \in Runs :
        (pc[p] # "done" /\ pc'[p] = "done") =>
            /\ indexPath(cfg'[p]) \in DOMAIN out'[p]
            /\ \A index \in {out'[p][indexPath(cfg'[p])]} :
                /\ fs'[indexPath(cfg'[p])] = index
                /\ \A imported \in {ImportedBy(cfg'[p], index)} :
                    /\ imported \subseteq DOMAIN fs'
                    /\ (GeneratedPaths(p)' \ {indexPath(cfg'[p])}) \cup {appPath(cfg'[p])}
                            = imported]_vars

\* a run with two Open Props files completed and its index imports five
\* files, all of them on disk
ImportedFilesExistWitness ==
    /\ pc[1] = "done"
    /\ Len(cfg[1].openprops.files) = 2
    /\ Cardinality(ImportedFiles(1)) = 5
    /\ ImportedFiles(1) \subseteq DOMAIN fs

(***************************************************************************)
(* The configurator component                                              *)

\* no update and no debounce timer is pending
ViewerSettled == viewPc = "connected" /\ debounceTimer = "none" /\ ~changed

\* the held schemes and palettes are those of seed s with the current
\* variant and contrast level
HeldStateOf(s) ==
    /\ view.lightColors = generateScheme(s, view.variant, FALSE, view.contrastLevel)
    /\ view.darkColors = generateScheme(s, view.variant, TRUE, view.contrastLevel)
    /\ view.palettes = generateTonalPalettes(s, view.variant)

\* C30: in the configurator component, after any sequence of hex-input,
\* hue-slider, variant, contrast and theme-toggle events, once every pending
\* debounce timer has fired, the held light scheme, dark scheme and tonal
\* palettes are the ones derived from the current valid seed, variant and
\* contrast level, and the palettes are never those of an earlier seed or
\* variant
HeldStateCurrent == ViewerSettled => HeldStateOf(view.seed)

\* what the component does keep: with a valid colour in the hex field and
\* nothing pending, the held state is the one of that colour, which is the seed
HeldStateCurrentForValidField ==
    (ViewerSettled /\ isValidHex(view.hexInput)) =>
        /\ normalizedSeed(view.hexInput) = view.seed
        /\ HeldStateOf(view.seed)

\* the hex field holds an unfinished colour, a variant was clicked, and the
\* schemes and palettes are still those of the variant before
VariantClickedOverInvalidField ==
    /\ ViewerSettled
    /\ ~isValidHex(view.hexInput)
    /\ view.variant = "vibrant"
    /\ view.lightColors = generateScheme(view.seed, "tonal-spot", FALSE, view.contrastLevel)
    /\ view.palettes = generateTonalPalettes(view.seed, "tonal-spot")

====
